---------------------------- MODULE Spec2Model ----------------------------
(***************************************************************************)
(* Model of the content repurposing core:                                  *)
(*   - GeminiRateLimiter / ContentGenerator (core/services/content_service)*)
(*   - generate_specific_content_pieces / fix_validation_errors            *)
(*     (repurpose.py)                                                      *)
(* Strings are modelled by their length (validation only looks at length), *)
(* response bodies by sequences of one-character strings.                  *)
(***************************************************************************)
EXTENDS Integers, Sequences, FiniteSets, TLC

VARIABLES
    now,            \* wall clock, seconds (time.time())
    gates,          \* GeminiRateLimiter instances, by generator id
    ngates,         \* number of ContentGenerator instances built on request
    tpc,            \* per thread: position inside generate_content
    tgate,          \* per thread: the generator (rate limiter) it calls
    tacq,           \* per thread: rate-gate acquisitions of the current call
    treq,           \* per thread: backend requests of the current call
    tlast,          \* per thread: outcome of the try block of the current call
    tresult,        \* per thread: value returned by generate_content
    acq_log,        \* every reservation made so far: [gate, at, yday]
    ncalls,         \* generate_content calls started so far
    owner,          \* video_id of generate_specific_content_pieces
    ideas,          \* the ideas argument: declared type of each idea
    pidx,           \* i of "for i, idea in enumerate(ideas, start=1)"
    ppc,            \* position: "loop", "fix", "done" or "raised"
    attempt,        \* attempt of "for attempt in range(max_retries)"
    raw_content,    \* the content under repair
    generated_pieces, \* the list being built and returned
    piece_idea,     \* for each piece, the index of the idea it came from
    cur_log,        \* values generate_content returned for the idea at hand
    ipath,          \* idea synthesis: the entry path taken
    itext,          \* idea synthesis: len(text) of the text handed in
    ipc,            \* idea synthesis: "start" or "done"
    icalls,         \* idea synthesis: generate_content calls made by the run
    iresp,          \* idea synthesis: what generate_content returned
    iout,           \* idea synthesis: how the run ended
    iideas,         \* idea synthesis: the ideas the run went on with
    fbody,          \* response parsing: message.content of the response
    fpc,            \* response parsing: "start" or "done"
    freturn,        \* response parsing: the value generate_content returned
    epath,          \* edit: "function" or "endpoint"
    epc,            \* edit: "start" or "done"
    estored,        \* edit: db_video.repurposed_text, as tokens
    ereqid,         \* edit: request.content_piece_id (index part)
    etype,          \* edit: the content_type argument
    eorig,          \* edit: original_content
    eresp,          \* edit: what generate_content returned
    ecalls,         \* edit: generate_content calls made
    evalidated,     \* edit: model validations run
    eret,           \* edit: value edit_content_piece_with_diff returned
    eout,           \* edit: how the run ended
    corig,          \* change listing: the original argument
    cedit,          \* change listing: the edited argument
    cpc,            \* change listing: "start" or "done"
    changes,        \* change listing: the list returned
    sessions,       \* brain: the BrainSession rows, in order of creation
    bpc,            \* brain: position of the run in generate_*
    bmode,          \* brain: mode of the run
    bfound,         \* brain: the gathering step found sources
    bresp,          \* brain: what generate_content returned
    bcontent,       \* brain: generated_content of the run
    bexc,           \* brain: message of the exception raised in the try block
    bout,           \* brain: "returned" or "raised" once the run has ended
    braised,        \* brain: message of the exception the caller received
    bclock,         \* brain: datetime.now() as a counter of writes
    ustore,         \* source use: the BrainSource rows by id
    umode,          \* source use: mode of the run
    uselected,      \* source use: the source ids the caller gave
    ucount,         \* source use: content_count (auto) or ai_augment_count (hybrid)
    ufilter,        \* source use: ids that pass the filters of generate_auto
    uhint,          \* source use: the discovery query is not empty
    upc,            \* source use: position of the run in generate_*
    usources,       \* source use: the sources gathered, as ids
    uai,            \* source use: ai_sources of generate_hybrid, as ids
    ucontext,       \* source use: the sources the context was built from
    ucontent,       \* source use: generated_content of the run
    uexc,           \* source use: message of the exception raised in the try block
    uout,           \* source use: "returned" or "raised" once the run has ended
    ubackend,       \* source use: generate_content calls made
    usession,       \* source use: the BrainSession row of the run
    uclock,         \* source use: datetime.now() as a counter of writes
    qscore,         \* search: relevance score of each stored source for the query
    qop,            \* search: "search" or "discover"
    qpass,          \* search: ids that pass the structural filters
    qlimit,         \* search: the limit argument
    qmin,           \* search: the min_score argument
    quser,          \* search: user_sources of the discovery, as ids
    qhint,          \* search: the discovery query is not empty
    qcount,         \* search: the count argument of the discovery
    qresult,        \* search: the list returned, as ids
    qpc,            \* search: "start" or "done"
    kquery,         \* scoring: query_lower, as characters
    ktitle,         \* scoring: source.title
    kcontent,       \* scoring: source.content
    ktopics,        \* scoring: the topics of the source
    ktags,          \* scoring: the tags of the source
    kscore,         \* scoring: the score returned last, in 1/600
    kprev,          \* scoring: the score returned before the title was changed
    ldefault,       \* limits: DEFAULT_FIELD_LIMITS
    lcurrent,       \* limits: CURRENT_FIELD_LIMITS
    lupdates,       \* limits: the arguments of the update_field_limits calls made
    lkey,           \* limits: the key of the last get_field_limit call
    lgot,           \* limits: what the last get_field_limit call returned
    lprompt,        \* limits: the limits the last content prompt was built from
    wgate,          \* waiting: the GeminiRateLimiter, request times counted from the present
    wday,           \* waiting: time.localtime().tm_yday, as one of two days
    wpc             \* waiting: where each thread is in wait_for_capacity

gvars == <<now, gates, ngates, tpc, tgate, tacq, treq, tlast, tresult,
           acq_log, ncalls>>

pvars == <<owner, ideas, pidx, ppc, attempt, raw_content, generated_pieces,
           piece_idea, cur_log>>

ivars == <<ipath, itext, ipc, icalls, iresp, iout, iideas>>

fvars == <<fbody, fpc, freturn>>

evars == <<epath, epc, estored, ereqid, etype, eorig, eresp, ecalls,
           evalidated, eret, eout>>

cvars == <<corig, cedit, cpc, changes>>

bvars == <<sessions, bpc, bmode, bfound, bresp, bcontent, bexc, bout,
           braised, bclock>>

uvars == <<ustore, umode, uselected, ucount, ufilter, uhint, upc, usources,
           uai, ucontext, ucontent, uexc, uout, ubackend, usession, uclock>>

qvars == <<qscore, qop, qpass, qlimit, qmin, quser, qhint, qcount, qresult, qpc>>

kvars == <<kquery, ktitle, kcontent, ktopics, ktags, kscore, kprev>>

lvars == <<ldefault, lcurrent, lupdates, lkey, lgot, lprompt>>

wvars == <<wgate, wday, wpc>>

\* the variables of the further operations (neither rate gate nor pipeline)
xvars == <<ivars, fvars, evars, cvars, bvars, uvars, qvars, kvars, lvars, wvars>>

\* everything but one group of the further operations
rest_ivars == <<gvars, pvars, fvars, evars, cvars, bvars, uvars, qvars, kvars, lvars, wvars>>
rest_fvars == <<gvars, pvars, ivars, evars, cvars, bvars, uvars, qvars, kvars, lvars, wvars>>
rest_evars == <<gvars, pvars, ivars, fvars, cvars, bvars, uvars, qvars, kvars, lvars, wvars>>
rest_cvars == <<gvars, pvars, ivars, fvars, evars, bvars, uvars, qvars, kvars, lvars, wvars>>
rest_bvars == <<gvars, pvars, ivars, fvars, evars, cvars, uvars, qvars, kvars, lvars, wvars>>
rest_uvars == <<gvars, pvars, ivars, fvars, evars, cvars, bvars, qvars, kvars, lvars, wvars>>
rest_qvars == <<gvars, pvars, ivars, fvars, evars, cvars, bvars, uvars, kvars, lvars, wvars>>
rest_kvars == <<gvars, pvars, ivars, fvars, evars, cvars, bvars, uvars, qvars, lvars, wvars>>
rest_lvars == <<gvars, pvars, ivars, fvars, evars, cvars, bvars, uvars, qvars, kvars, wvars>>
rest_wvars == <<gvars, pvars, ivars, fvars, evars, cvars, bvars, uvars, qvars, kvars, lvars>>

vars == <<gvars, pvars, xvars>>

----------------------------------------------------------------------------
(* Bounds *)
NThreads == 2
MaxCalls == 4
MaxBrain == 3
MaxElapsed == 95
rpm_limit == 2
qpd_limit == 2
MaxIdeas == 2

(* Program constants *)
WindowSeconds == 60
DaySeconds == 24 * 60 * 60
FenceOpenLen == 7
FenceCloseLen == 3
title_max == 100
caption_max == 300
step_heading_max == 100
slide_text_max == 300
min_slides == 4
tweet_text_max == 280
max_retries == 2
IdWidth == 3

Threads == 1..NThreads
SharedGate == 0
GateIds == 0..MaxBrain

\* The process may be started at any time of day; these start times put a
\* midnight inside the explored horizon.
StartTime == DaySeconds - 30
TickSteps == {30, 31}

----------------------------------------------------------------------------
(* time.localtime().tm_yday: day of the year, 1-based.  The horizon is far  *)
(* shorter than a year, so the yearly wrap of tm_yday is not reached.       *)
tm_yday(t) == (t \div DaySeconds) + 1

(* GeminiRateLimiter.__init__ *)
NewLimiter(t) ==
    [request_times |-> <<>>, daily_count |-> 0, last_reset_day |-> tm_yday(t)]

(* if current_day != self.last_reset_day: reset *)
ResetDaily_always(g, current_day) ==
    IF current_day # g.last_reset_day
    THEN [g EXCEPT !.daily_count = 0]
    ELSE g

ResetDaily(g, current_day) ==
    IF current_day # g.last_reset_day
    THEN [g EXCEPT !.daily_count = 0, !.last_reset_day = current_day]
    ELSE g

(* while self.request_times and self.request_times[0] < one_minute_ago: popleft *)
RECURSIVE PopOld(_, _)
PopOld(q, one_minute_ago) ==
    IF q # <<>> /\ Head(q) < one_minute_ago
    THEN PopOld(Tail(q), one_minute_ago)
    ELSE q

(* the capacity test of wait_for_capacity *)
HasCapacity_offByOne(g) ==
    g.daily_count < qpd_limit /\ Len(g.request_times) <= rpm_limit

HasCapacity(g) ==
    g.daily_count < qpd_limit /\ Len(g.request_times) < rpm_limit

(* the part of the locked block that runs on every poll *)
Refresh(g, t) ==
    LET g1 == ResetDaily(g, tm_yday(t))
    IN  [g1 EXCEPT !.request_times = PopOld(@, t - WindowSeconds)]

(* the reservation *)
Reserve(g, t) ==
    [g EXCEPT !.request_times = Append(@, t), !.daily_count = @ + 1]

----------------------------------------------------------------------------
(* Backend behaviour seen by generate_content.  A body is the text of       *)
(* message.content, one character per element; "m" stands for one member    *)
(* of a JSON object, " " for any whitespace character.                      *)
\* BT stands for the backtick character
BT == "^"
Fence == <<BT, BT, BT>>
FenceJson == Fence \o <<"j", "s", "o", "n">>
ObjText == <<"{", "m", "}">>
EmptyObjText == <<"{", "}">>

Bodies ==
    { ObjText,
      EmptyObjText,
      <<" ">> \o ObjText \o <<" ">>,
      FenceJson \o ObjText \o Fence,
      FenceJson \o <<" ">> \o ObjText \o <<" ">> \o Fence,
      Fence \o ObjText \o Fence,
      FenceJson \o ObjText,
      <<"x">> }

Outcomes ==
    {[kind |-> "transport_error", body |-> <<>>],
     [kind |-> "no_choices", body |-> <<>>],
     [kind |-> "text", body |-> <<>>]}
    \cup {[kind |-> "text", body |-> b] : b \in Bodies}

(* str.strip() *)
RECURSIVE LStrip(_)
LStrip(s) == IF s # <<>> /\ Head(s) = " " THEN LStrip(Tail(s)) ELSE s

RECURSIVE RStrip(_)
RStrip(s) ==
    IF s # <<>> /\ s[Len(s)] = " " THEN RStrip(SubSeq(s, 1, Len(s) - 1)) ELSE s

Strip(s) == RStrip(LStrip(s))

(* str.startswith *)
StartsWith(s, p) == Len(s) >= Len(p) /\ SubSeq(s, 1, Len(p)) = p

(* s[a:-b] for a >= 0, b > 0 *)
Slice(s, a, b) == SubSeq(s, a + 1, Len(s) - b)

(* if content_str.startswith(FenceJson): content_str = content_str[7:-3].strip() *)
StripFence(s) ==
    IF StartsWith(s, FenceJson)
    THEN Strip(Slice(s, FenceOpenLen, FenceCloseLen))
    ELSE s

(* json.loads on the texts above: the parsed value, or "JSONDecodeError" *)
json_loads(s) ==
    LET u == Strip(s)
    IN  IF u = ObjText THEN "obj"
        ELSE IF u = EmptyObjText THEN "emptyobj"
        ELSE "JSONDecodeError"

(* the body of the try block of generate_content: a value, "None" when the  *)
(* if falls through, or the exception raised                                *)
TryBlock(out) ==
    IF out.kind = "transport_error" THEN "APIError"
    ELSE IF out.kind = "no_choices" \/ out.body = <<>> THEN "None"
    ELSE json_loads(StripFence(Strip(out.body)))

IsException(v) == v \in {"APIError", "JSONDecodeError"}

(* except Exception as e: log; return None *)
ExceptHandler_reraise(v) == IF IsException(v) THEN "raised" ELSE v

ExceptHandler(v) == IF IsException(v) THEN "None" ELSE v

----------------------------------------------------------------------------
(* Contents.  A string field is its length, NoneV when the field is absent. *)
(* The value generate_content hands to the pipeline is a record whose rv    *)
(* says whether it is None, the empty object, or an object with the fields  *)
(* below (the request asks for response_format json_object).                *)
NoneV == -1
NoId == [owner |-> "", digits |-> <<>>]
LlmId == [owner |-> "llm", digits |-> <<7>>]

Slide(h, t) == [step_heading |-> h, text |-> t]

Obj(ct, ti, ca, ho, sb, tw, th, sl, id) ==
    [rv |-> "obj", content_type |-> ct, title |-> ti, caption |-> ca,
     hook |-> ho, script_body |-> sb, tweet_text |-> tw,
     thread_continuation |-> th, slides |-> sl, content_id |-> id]

NoContent ==
    [Obj("", NoneV, NoneV, NoneV, NoneV, NoneV, <<>>, <<>>, NoId)
        EXCEPT !.rv = "None"]

EmptyObject == [NoContent EXCEPT !.rv = "emptyobj"]

OkSlide == Slide(step_heading_max, slide_text_max)
Slides(n) == [k \in 1..n |-> OkSlide]

GoodReel == Obj("reel", title_max, caption_max, 20, 50, NoneV, <<>>, <<>>, NoId)
GoodTweet == Obj("tweet", 10, NoneV, NoneV, NoneV, tweet_text_max, <<>>, <<>>, NoId)
GoodCarousel ==
    Obj("image_carousel", 10, 10, NoneV, NoneV, NoneV, <<>>, Slides(min_slides), NoId)

Responses ==
    { NoContent, EmptyObject,
      GoodReel,
      [GoodReel EXCEPT !.content_id = LlmId],
      [GoodReel EXCEPT !.caption = caption_max + 1],
      [GoodReel EXCEPT !.hook = NoneV],
      GoodTweet,
      [GoodTweet EXCEPT !.tweet_text = tweet_text_max + 1],
      [GoodTweet EXCEPT !.thread_continuation = <<tweet_text_max + 1>>],
      GoodCarousel,
      [GoodCarousel EXCEPT !.slides = Slides(min_slides - 1)],
      [GoodCarousel EXCEPT !.slides = Slides(2 * min_slides + 1)],
      [GoodCarousel EXCEPT !.slides[2].text = slide_text_max + 1],
      [GoodReel EXCEPT !.content_type = "story"] }

(* "if not raw_content": None and the empty dict are falsy *)
Truthy(r) == r.rv = "obj"

(* f"{i:03d}": the decimal digits of i, zero-padded to at least three *)
RECURSIVE Digits(_)
Digits(i) == IF i < 10 THEN <<i>> ELSE Digits(i \div 10) \o <<i % 10>>

RECURSIVE ZeroPad(_, _)
ZeroPad(ds, w) == IF Len(ds) >= w THEN ds ELSE ZeroPad(<<0>> \o ds, w)

Fmt03_nopad(i) == Digits(i)

Fmt03(i) == ZeroPad(Digits(i), IdWidth)

(* content_id = f"{video_id}_{i:03d}" *)
content_id_of(o, i) == [owner |-> o, digits |-> Fmt03(i)]

(* raw_content['content_id'] = content_id *)
WithId(c, id) == [c EXCEPT !.content_id = id]

(* fixed_content['content_id'] = raw_content.get('content_id') *)
CopyId_keep(fixed, raw) == fixed

CopyId(fixed, raw) == [fixed EXCEPT !.content_id = raw.content_id]

(* pydantic field checks: Field(...) and Field(..., max_length=n) *)
Required(v) == v # NoneV
MaxLen(v, n) == v = NoneV \/ v <= n

(* CarouselSlide *)
SlideOk(sl) ==
    /\ Required(sl.step_heading)
    /\ MaxLen(sl.step_heading, step_heading_max)
    /\ MaxLen(sl.text, slide_text_max)

(* the Reel model built from c *)
ReelOk(c) ==
    /\ c.content_id # NoId
    /\ Required(c.title) /\ MaxLen(c.title, title_max)
    /\ MaxLen(c.caption, caption_max)
    /\ Required(c.hook)
    /\ Required(c.script_body)

(* the ImageCarousel model built from c *)
ImageCarouselOk(c) ==
    /\ c.content_id # NoId
    /\ Required(c.title) /\ MaxLen(c.title, title_max)
    /\ MaxLen(c.caption, caption_max)
    /\ Len(c.slides) >= min_slides
    /\ \A k \in DOMAIN c.slides : SlideOk(c.slides[k])

(* the Tweet model built from c *)
TweetOk(c) ==
    /\ c.content_id # NoId
    /\ Required(c.title) /\ MaxLen(c.title, title_max)
    /\ Required(c.tweet_text) /\ MaxLen(c.tweet_text, tweet_text_max)

(* the if/elif chain on content_type inside the try block: "ok" when the    *)
(* model is built, "ValidationError" when pydantic raises, "unknown_type"   *)
(* for the else branch                                                      *)
Validate_unknownRaises(c) ==
    IF c.content_type = "reel"
    THEN IF ReelOk(c) THEN "ok" ELSE "ValidationError"
    ELSE IF c.content_type = "image_carousel"
    THEN IF ImageCarouselOk(c) THEN "ok" ELSE "ValidationError"
    ELSE IF c.content_type = "tweet"
    THEN IF TweetOk(c) THEN "ok" ELSE "ValidationError"
    ELSE "KeyError"

Validate(c) ==
    IF c.content_type = "reel"
    THEN IF ReelOk(c) THEN "ok" ELSE "ValidationError"
    ELSE IF c.content_type = "image_carousel"
    THEN IF ImageCarouselOk(c) THEN "ok" ELSE "ValidationError"
    ELSE IF c.content_type = "tweet"
    THEN IF TweetOk(c) THEN "ok" ELSE "ValidationError"
    ELSE "unknown_type"

(* the model instance built from a dict: fields the type does not declare   *)
(* are ignored                                                              *)
ModelOf(c) ==
    IF c.content_type = "reel"
    THEN [c EXCEPT !.tweet_text = NoneV, !.thread_continuation = <<>>,
                   !.slides = <<>>]
    ELSE IF c.content_type = "image_carousel"
    THEN [c EXCEPT !.hook = NoneV, !.script_body = NoneV,
                   !.tweet_text = NoneV, !.thread_continuation = <<>>]
    ELSE [c EXCEPT !.caption = NoneV, !.hook = NoneV, !.script_body = NoneV,
                   !.slides = <<>>]

(* for attempt in range(max_retries) *)
InRange_oneMore(a) == a <= max_retries

InRange(a) == a < max_retries

----------------------------------------------------------------------------
ContentTypes == {"reel", "image_carousel", "tweet"}
Owners == {"dQw4w9WgXcQ", "unknown"}

IdeaLists == UNION {[1..n -> ContentTypes] : n \in 0..MaxIdeas}

PipeIdle ==
    /\ owner = "unknown"
    /\ ideas = <<>>
    /\ pidx = 1
    /\ ppc = "done"
    /\ attempt = 0
    /\ raw_content = NoContent
    /\ generated_pieces = <<>>
    /\ piece_idea = <<>>
    /\ cur_log = <<>>

GateIdle ==
    /\ now = StartTime
    /\ gates = [g \in GateIds |-> NewLimiter(StartTime)]
    /\ ngates = 0
    /\ tpc = [t \in Threads |-> "idle"]
    /\ tgate = [t \in Threads |-> SharedGate]
    /\ tacq = [t \in Threads |-> 0]
    /\ treq = [t \in Threads |-> 0]
    /\ tlast = [t \in Threads |-> "-"]
    /\ tresult = [t \in Threads |-> "-"]
    /\ acq_log = <<>>
    /\ ncalls = 0

(* entry of generate_specific_content_pieces *)
IdeasIdle ==
    /\ ipath = "-"
    /\ itext = 0
    /\ ipc = "done"
    /\ icalls = 0
    /\ iresp = [rv |-> "None", is_list |-> FALSE, ideas |-> <<>>]
    /\ iout = "-"
    /\ iideas = <<>>

FenceIdle ==
    /\ fbody = <<>>
    /\ fpc = "done"
    /\ freturn = "-"

EditIdle ==
    /\ epath = "-"
    /\ epc = "done"
    /\ estored = <<>>
    /\ ereqid = 0
    /\ etype = ""
    /\ eorig = NoContent
    /\ eresp = NoContent
    /\ ecalls = 0
    /\ evalidated = 0
    /\ eret = NoContent
    /\ eout = "-"

ChangesIdle ==
    /\ corig = <<>>
    /\ cedit = <<>>
    /\ cpc = "idle"
    /\ changes = <<>>

BrainIdle ==
    /\ sessions = <<>>
    /\ bpc = "idle"
    /\ bmode = ""
    /\ bfound = FALSE
    /\ bresp = "-"
    /\ bcontent = "-"
    /\ bexc = "-"
    /\ bout = "-"
    /\ braised = "-"
    /\ bclock = 0

UseIdle ==
    /\ ustore = <<>>
    /\ umode = ""
    /\ uselected = <<>>
    /\ ucount = 0
    /\ ufilter = {}
    /\ uhint = FALSE
    /\ upc = "idle"
    /\ usources = <<>>
    /\ uai = <<>>
    /\ ucontext = <<>>
    /\ ucontent = "-"
    /\ uexc = "-"
    /\ uout = "-"
    /\ ubackend = 0
    /\ usession = <<>>
    /\ uclock = 0

SearchIdle ==
    /\ qscore = <<>>
    /\ qop = "-"
    /\ qpass = {}
    /\ qlimit = 0
    /\ qmin = 0
    /\ quser = <<>>
    /\ qhint = FALSE
    /\ qcount = 0
    /\ qresult = <<>>
    /\ qpc = "done"

ScoreIdle ==
    /\ kquery = <<>>
    /\ ktitle = <<>>
    /\ kcontent = <<>>
    /\ ktopics = <<>>
    /\ ktags = <<>>
    /\ kscore = -1
    /\ kprev = -1

LimitsIdle ==
    /\ ldefault = <<>>
    /\ lcurrent = <<>>
    /\ lupdates = <<>>
    /\ lkey = ""
    /\ lgot = 0
    /\ lprompt = <<>>

WaitIdle ==
    /\ wgate = <<>>
    /\ wday = 0
    /\ wpc = <<>>

XIdle == IdeasIdle /\ FenceIdle /\ EditIdle /\ ChangesIdle /\ BrainIdle /\ UseIdle /\ SearchIdle /\ ScoreIdle /\ LimitsIdle /\ WaitIdle

\* every group idle but one
RestIdeasIdle == GateIdle /\ PipeIdle /\ FenceIdle /\ EditIdle /\ ChangesIdle /\ BrainIdle /\ UseIdle /\ SearchIdle /\ ScoreIdle /\ LimitsIdle /\ WaitIdle
RestFenceIdle == GateIdle /\ PipeIdle /\ IdeasIdle /\ EditIdle /\ ChangesIdle /\ BrainIdle /\ UseIdle /\ SearchIdle /\ ScoreIdle /\ LimitsIdle /\ WaitIdle
RestEditIdle == GateIdle /\ PipeIdle /\ IdeasIdle /\ FenceIdle /\ ChangesIdle /\ BrainIdle /\ UseIdle /\ SearchIdle /\ ScoreIdle /\ LimitsIdle /\ WaitIdle
RestChangesIdle == GateIdle /\ PipeIdle /\ IdeasIdle /\ FenceIdle /\ EditIdle /\ BrainIdle /\ UseIdle /\ SearchIdle /\ ScoreIdle /\ LimitsIdle /\ WaitIdle
RestBrainIdle == GateIdle /\ PipeIdle /\ IdeasIdle /\ FenceIdle /\ EditIdle /\ ChangesIdle /\ UseIdle /\ SearchIdle /\ ScoreIdle /\ LimitsIdle /\ WaitIdle
RestUseIdle == GateIdle /\ PipeIdle /\ IdeasIdle /\ FenceIdle /\ EditIdle /\ ChangesIdle /\ BrainIdle /\ SearchIdle /\ ScoreIdle /\ LimitsIdle /\ WaitIdle
RestSearchIdle == GateIdle /\ PipeIdle /\ IdeasIdle /\ FenceIdle /\ EditIdle /\ ChangesIdle /\ BrainIdle /\ UseIdle /\ ScoreIdle /\ LimitsIdle /\ WaitIdle
RestScoreIdle == GateIdle /\ PipeIdle /\ IdeasIdle /\ FenceIdle /\ EditIdle /\ ChangesIdle /\ BrainIdle /\ UseIdle /\ SearchIdle /\ LimitsIdle /\ WaitIdle
RestLimitsIdle == GateIdle /\ PipeIdle /\ IdeasIdle /\ FenceIdle /\ EditIdle /\ ChangesIdle /\ BrainIdle /\ UseIdle /\ SearchIdle /\ ScoreIdle /\ WaitIdle
RestWaitIdle == GateIdle /\ PipeIdle /\ IdeasIdle /\ FenceIdle /\ EditIdle /\ ChangesIdle /\ BrainIdle /\ UseIdle /\ SearchIdle /\ ScoreIdle /\ LimitsIdle








PipeInit ==
    /\ GateIdle
    /\ XIdle
    /\ owner \in Owners
    /\ ideas \in IdeaLists
    /\ pidx = 1
    /\ ppc = "loop"
    /\ attempt = 0
    /\ raw_content = NoContent
    /\ generated_pieces = <<>>
    /\ piece_idea = <<>>
    /\ cur_log = <<>>

(* generated_pieces.append(piece), then the next idea *)
AppendPiece(c) ==
    /\ generated_pieces' = Append(generated_pieces, ModelOf(c))
    /\ piece_idea' = Append(piece_idea, pidx)
    /\ pidx' = pidx + 1
    /\ ppc' = "loop"

(* continue / end of the loop body without a piece *)
DropIdea ==
    /\ pidx' = pidx + 1
    /\ ppc' = "loop"
    /\ UNCHANGED <<generated_pieces, piece_idea>>

(* an exception no handler of the function catches *)
Propagate ==
    /\ ppc' = "raised"
    /\ UNCHANGED <<pidx, generated_pieces, piece_idea>>

(* one iteration of the for loop up to the first validation *)
Generate ==
    /\ ppc = "loop"
    /\ pidx <= Len(ideas)
    /\ \E r \in Responses :
         /\ cur_log' = <<r>>
         /\ IF ~Truthy(r)
            THEN DropIdea /\ UNCHANGED <<attempt, raw_content>>
            ELSE LET c == WithId(r, content_id_of(owner, pidx))
                     v == Validate(c)
                 IN  IF v = "ok"
                     THEN AppendPiece(c) /\ UNCHANGED <<attempt, raw_content>>
                     ELSE IF v = "unknown_type"
                     THEN DropIdea /\ UNCHANGED <<attempt, raw_content>>
                     ELSE IF v = "ValidationError"
                     THEN /\ ppc' = "fix"
                          /\ attempt' = 0
                          /\ raw_content' = c
                          /\ UNCHANGED <<pidx, generated_pieces, piece_idea>>
                     ELSE Propagate /\ UNCHANGED <<attempt, raw_content>>
    /\ UNCHANGED <<owner, ideas, gvars, xvars>>

(* after a failed attempt: the next attempt, or "return None" and discard *)
NextAttempt ==
    IF InRange(attempt + 1)
    THEN /\ attempt' = attempt + 1
         /\ UNCHANGED <<pidx, ppc, generated_pieces, piece_idea>>
    ELSE /\ attempt' = 0
         /\ DropIdea

(* one attempt of fix_validation_errors; on success the caller validates    *)
(* the returned content again and appends it                                *)
FixAttempt ==
    /\ ppc = "fix"
    /\ InRange(attempt)
    /\ \E r \in Responses :
         /\ cur_log' = Append(cur_log, r)
         /\ IF ~Truthy(r)
            THEN NextAttempt
            ELSE LET c == CopyId(r, raw_content)
                     v == Validate(c)
                 IN  IF v = "ok"
                     THEN IF Validate(c) = "ok"
                          THEN AppendPiece(c) /\ attempt' = 0
                          ELSE DropIdea /\ attempt' = 0
                     ELSE IF v \in {"unknown_type", "ValidationError"}
                     THEN NextAttempt
                     ELSE Propagate /\ UNCHANGED attempt
    /\ UNCHANGED <<owner, ideas, raw_content, gvars, xvars>>

(* return GeneratedContentList(pieces=generated_pieces) *)
Return ==
    /\ ppc = "loop"
    /\ pidx > Len(ideas)
    /\ ppc' = "done"
    /\ UNCHANGED <<owner, ideas, pidx, attempt, raw_content, generated_pieces,
                   piece_idea, cur_log, gvars, xvars>>

PipeNext == Generate \/ FixAttempt \/ Return

SpecPipe == PipeInit /\ [][PipeNext]_vars

----------------------------------------------------------------------------
GateInit == GateIdle /\ PipeIdle /\ XIdle

(* time passes *)
Tick ==
    /\ \E d \in TickSteps :
         /\ now + d <= StartTime + MaxElapsed
         /\ now' = now + d
    /\ UNCHANGED <<gates, ngates, tpc, tgate, tacq, treq, tlast, tresult,
                   acq_log, ncalls, pvars, xvars>>

EnterCall(t, g) ==
    /\ tpc[t] = "idle"
    /\ ncalls < MaxCalls
    /\ ncalls' = ncalls + 1
    /\ tpc' = [tpc EXCEPT ![t] = "wait"]
    /\ tgate' = [tgate EXCEPT ![t] = g]
    /\ tacq' = [tacq EXCEPT ![t] = 0]
    /\ treq' = [treq EXCEPT ![t] = 0]
    /\ tlast' = [tlast EXCEPT ![t] = "-"]
    /\ tresult' = [tresult EXCEPT ![t] = "-"]

(* a caller of the module-level content_generator of repurpose.py           *)
(* (process video/document, edit) enters generate_content                   *)
CallShared(t) ==
    /\ EnterCall(t, SharedGate)
    /\ UNCHANGED <<now, gates, ngates, acq_log, pvars, xvars>>

(* a brain endpoint: get_content_generator() builds a new ContentGenerator, *)
(* whose __init__ builds a new GeminiRateLimiter, then calls it             *)
CallBrain(t) ==
    /\ ngates < MaxBrain
    /\ EnterCall(t, ngates + 1)
    /\ ngates' = ngates + 1
    /\ gates' = [gates EXCEPT ![ngates + 1] = NewLimiter(now)]
    /\ UNCHANGED <<now, acq_log, pvars, xvars>>

(* one pass through the locked block of wait_for_capacity that reserves     *)
PollAcquire(t) ==
    /\ tpc[t] = "wait"
    /\ LET id == tgate[t]
           g == Refresh(gates[id], now)
       IN  /\ HasCapacity(g)
           /\ gates' = [gates EXCEPT ![id] = Reserve(g, now)]
           /\ acq_log' = Append(acq_log,
                            [gate |-> id, at |-> now, yday |-> tm_yday(now)])
    /\ tpc' = [tpc EXCEPT ![t] = "request"]
    /\ tacq' = [tacq EXCEPT ![t] = @ + 1]
    /\ UNCHANGED <<now, ngates, tgate, treq, tlast, tresult, ncalls, pvars, xvars>>

(* one pass through the locked block that finds no capacity; the caller     *)
(* sleeps 0.1s and polls again                                              *)
PollBlocked(t) ==
    /\ tpc[t] = "wait"
    /\ LET id == tgate[t]
           g == Refresh(gates[id], now)
       IN  /\ ~HasCapacity(g)
           /\ gates' = [gates EXCEPT ![id] = g]
    /\ UNCHANGED <<now, ngates, tpc, tgate, tacq, treq, tlast, tresult,
                   acq_log, ncalls, pvars, xvars>>

(* client.chat.completions.create and the rest of generate_content *)
Respond(t) ==
    /\ tpc[t] = "request"
    /\ \E out \in Outcomes :
         /\ tlast' = [tlast EXCEPT ![t] = TryBlock(out)]
         /\ tresult' = [tresult EXCEPT ![t] = ExceptHandler(TryBlock(out))]
    /\ treq' = [treq EXCEPT ![t] = @ + 1]
    /\ tpc' = [tpc EXCEPT ![t] = "idle"]
    /\ UNCHANGED <<now, gates, ngates, tgate, tacq, acq_log, ncalls, pvars, xvars>>

\* one GeminiRateLimiter shared by all callers
GateNext ==
    \/ Tick
    \/ \E t \in Threads : CallShared(t)
    \/ \E t \in Threads : PollAcquire(t)
    \/ \E t \in Threads : PollBlocked(t)
    \/ \E t \in Threads : Respond(t)

SpecGate == GateInit /\ [][GateNext]_vars

\* the whole process: shared generator plus per-request brain generators
ProcessNext ==
    \/ GateNext
    \/ \E t \in Threads : CallBrain(t)

SpecProcess == GateInit /\ [][ProcessNext]_vars


----------------------------------------------------------------------------
(* Reservations of gate g whose timestamp lies in the 60-second window      *)
(* ending at instant t, and reservations of gate g made on day d.           *)
InWindow(g, t) ==
    {i \in DOMAIN acq_log :
        /\ acq_log[i].gate = g
        /\ acq_log[i].at >= t - WindowSeconds
        /\ acq_log[i].at <= t}

OnDay(g, d) ==
    {i \in DOMAIN acq_log : acq_log[i].gate = g /\ acq_log[i].yday = d}

Instants == StartTime..now
Days == tm_yday(StartTime)..tm_yday(now)

\* C1: for one rate limiter shared by all calling threads, at every instant
\* t the number of reservations whose timestamp lies in the trailing
\* 60-second window ending at t is at most rpm_limit.
C1_RpmWindow ==
    \A t \in Instants : Cardinality(InWindow(SharedGate, t)) <= rpm_limit

\* C1 witness: the window is full, a caller is blocked on it, and older
\* reservations have already left the window.
C1_Witness ==
    /\ Cardinality(InWindow(SharedGate, now)) = rpm_limit
    /\ Len(acq_log) > rpm_limit
    /\ \E t \in Threads : tpc[t] = "wait"

\* C8: generate_content never raises; it returns None when the request
\* fails, the response is empty or the body does not parse; and one call
\* makes exactly one rate-gate acquisition and at most one backend request.
C8_ClientNeverRaises ==
    \A t \in Threads :
        /\ tresult[t] # "raised"
        /\ tacq[t] <= 1
        /\ treq[t] <= 1
        /\ tresult[t] # "-" =>
              /\ tacq[t] = 1
              /\ tlast[t] \in {"APIError", "JSONDecodeError", "None"}
                    => tresult[t] = "None"

\* C8 witness: a call whose body failed to parse has returned None after one
\* acquisition and one request.
C8_Witness ==
    \E t \in Threads :
        /\ tpc[t] = "idle"
        /\ tlast[t] = "JSONDecodeError"
        /\ tresult[t] = "None"
        /\ tacq[t] = 1
        /\ treq[t] = 1

\* C9: every backend request of the process is admitted by one shared gate:
\* counting the admissions (reservations) of every generator of the process
\* together, no rolling 60-second window holds more than rpm_limit of them.
C9_ProcessWideRpm ==
    \A t \in Instants :
        Cardinality(UNION {InWindow(g, t) : g \in GateIds}) <= rpm_limit

\* C10: at most qpd_limit reservations of one limiter fall on one calendar
\* day, and the daily counter equals the number of reservations made on the
\* day of the last reset (one increment per reservation, one reset per day).
C10_DailyQuota ==
    /\ \A d \in Days : Cardinality(OnDay(SharedGate, d)) <= qpd_limit
    /\ gates[SharedGate].daily_count =
          Cardinality(OnDay(SharedGate, gates[SharedGate].last_reset_day))

\* C10 witness: after a day change reset a non-zero counter, the new day's
\* quota is used up and blocks a caller although the minute window has room.
C10_Witness ==
    /\ OnDay(SharedGate, tm_yday(StartTime)) # {}
    /\ gates[SharedGate].last_reset_day = tm_yday(StartTime) + 1
    /\ gates[SharedGate].daily_count = qpd_limit
    /\ Len(PopOld(gates[SharedGate].request_times, now - WindowSeconds)) < rpm_limit
    /\ \E t \in Threads : tpc[t] = "wait"

----------------------------------------------------------------------------
(* Statements about generate_specific_content_pieces.  The schema is        *)
(* restated here from the field bounds, independently of Validate.          *)
tweet_thread_item_max == 280
carousel_max_slides == 8
carousel_slide_text_max == 800

KnownType(r) == r.content_type \in ContentTypes

Within(v, n) == v \in 0..n
OptWithin(v, n) == v = NoneV \/ v \in 0..n

\* required fields and bounds the models of the pipeline declare
Conforms(r) ==
    /\ r.rv = "obj"
    /\ Within(r.title, title_max)
    /\ r.content_type = "reel" =>
          OptWithin(r.caption, caption_max) /\ r.hook >= 0 /\ r.script_body >= 0
    /\ r.content_type = "tweet" => Within(r.tweet_text, tweet_text_max)
    /\ r.content_type = "image_carousel" =>
          /\ OptWithin(r.caption, caption_max)
          /\ Len(r.slides) >= min_slides
          /\ \A k \in 1..Len(r.slides) :
                /\ Within(r.slides[k].step_heading, step_heading_max)
                /\ OptWithin(r.slides[k].text, slide_text_max)

\* a response of a known type that breaks the schema / that meets it
Violates(r) == r.rv = "obj" /\ KnownType(r) /\ ~Conforms(r)
Compliant(r) == r.rv = "obj" /\ KnownType(r) /\ Conforms(r)

\* the bounds of the field limits that the claim about returned artifacts
\* adds: thread items, slide text under the configured maximum, slide count
InForceBounds(p) ==
    /\ \A k \in 1..Len(p.thread_continuation) :
          p.thread_continuation[k] <= tweet_thread_item_max
    /\ \A k \in 1..Len(p.slides) :
          OptWithin(p.slides[k].text, carousel_slide_text_max)
    /\ p.content_type = "image_carousel" =>
          Len(p.slides) \in min_slides..carousel_max_slides

\* the idea whose processing has ended last, and the pieces of idea i
Finished == ppc \in {"loop", "done"} /\ pidx > 1
LastIdea == pidx - 1
PiecesOf(i) == {k \in DOMAIN piece_idea : piece_idea[k] = i}

ThreeDigits(i) == <<i \div 100, (i \div 10) % 10, i % 10>>
ExpectedId(i) == [owner |-> owner, digits |-> ThreeDigits(i)]
IdNumber(id) == 100 * id.digits[1] + 10 * id.digits[2] + id.digits[3]

\* generation of an idea failed: no result or unknown type on the first
\* call, or the repair loop used up
GenerationFailed(log) ==
    \/ Len(log) = 1 /\ (log[1].rv # "obj" \/ ~KnownType(log[1]))
    \/ /\ Len(log) = 1 + max_retries
       /\ \A k \in 1..Len(log) : ~Compliant(log[k])

C3_CallBound ==
    /\ Len(cur_log) <= 1 + max_retries
    /\ Len(cur_log) > 1 => Violates(cur_log[1])
    /\ \A k \in 1..(Len(cur_log) - 1) : ~Compliant(cur_log[k])

\* C3 witness: an idea has used all 1 + max_retries calls and the last one
\* validated.
C3_Witness ==
    /\ Finished
    /\ Len(cur_log) = 1 + max_retries
    /\ Compliant(cur_log[Len(cur_log)])
    /\ PiecesOf(LastIdea) # {}

\* C4: a first response that violates the schema followed by a compliant
\* response yields exactly one artifact for the idea: the second response,
\* carrying the id assigned to the idea before the repair.
C4_RepairedAccepted ==
    (Finished /\ Len(cur_log) >= 2 /\ Violates(cur_log[1])
        /\ Compliant(cur_log[2]))
    => /\ Cardinality(PiecesOf(LastIdea)) = 1
       /\ \A k \in PiecesOf(LastIdea) :
             generated_pieces[k] =
                ModelOf(WithId(cur_log[2], ExpectedId(LastIdea)))

\* C4 witness: the second idea's first response was a carousel one slide
\* short, the repaired response was accepted.
C4_Witness ==
    /\ Finished
    /\ LastIdea = 2
    /\ Len(cur_log) = 2
    /\ cur_log[1].content_type = "image_carousel"
    /\ Len(cur_log[1].slides) = min_slides - 1
    /\ Compliant(cur_log[2])
    /\ PiecesOf(2) # {}

\* C5 as stated: two consecutive violations yield no artifact for the idea.
C5_TwoViolationsDrop ==
    (Finished /\ Len(cur_log) >= 2 /\ Violates(cur_log[1])
        /\ Violates(cur_log[2]))
    => PiecesOf(LastIdea) = {}

\* C5 amended: when the first response and both repair responses violate
\* the schema (1 + max_retries consecutive violations) the idea yields no
\* artifact, the repair loop is left and the batch goes on.
C5_AllAttemptsViolateDrop ==
    (Len(cur_log) = 1 + max_retries
        /\ \A k \in 1..Len(cur_log) : Violates(cur_log[k]))
    => /\ ppc \in {"loop", "done"}
       /\ PiecesOf(LastIdea) = {}

\* C5 witness: three violations in a row, idea dropped, next idea pending.
C5_Witness ==
    /\ Len(cur_log) = 1 + max_retries
    /\ \A k \in 1..Len(cur_log) : Violates(cur_log[k])
    /\ ppc = "loop"
    /\ pidx <= Len(ideas)

\* C6: every returned artifact meets the schema of its type under the
\* limits in force, those on thread items and on the slide count included.
C6_ReturnedWithinLimits ==
    \A k \in DOMAIN generated_pieces :
        /\ Compliant(generated_pieces[k])
        /\ InForceBounds(generated_pieces[k])

\* C7: the artifact of the i-th idea has id owner_i with i padded to three
\* digits; ids strictly increase along the output; when every idea yields
\* an artifact the ids are 001..00k in order.
C7_SequentialIds ==
    /\ \A k \in DOMAIN generated_pieces :
          generated_pieces[k].content_id = ExpectedId(piece_idea[k])
    /\ \A k \in 1..(Len(generated_pieces) - 1) :
          IdNumber(generated_pieces[k].content_id)
             < IdNumber(generated_pieces[k + 1].content_id)
    /\ (ppc = "done" /\ Len(generated_pieces) = Len(ideas)) =>
          \A k \in DOMAIN generated_pieces :
             generated_pieces[k].content_id = ExpectedId(k)

\* C7 witness: the call returned an artifact for each of two ideas, the
\* last one after a repair whose response carried an id of its own.
C7_Witness ==
    /\ ppc = "done"
    /\ Len(ideas) = 2
    /\ Len(generated_pieces) = 2
    /\ Len(cur_log) = 2
    /\ cur_log[2].content_id = LlmId

----------------------------------------------------------------------------
(* Statements about callers blocked in wait_for_capacity.                   *)

\* gate g has no capacity at the current instant: its trailing 60-second
\* window holds rpm_limit reservations or rpm_limit more, or the reservations
\* of the current day number qpd_limit or more
Exhausted(g) ==
    \/ Cardinality(InWindow(g, now)) >= rpm_limit
    \/ Cardinality(OnDay(g, tm_yday(now))) >= qpd_limit

\* C11: a caller waiting on a gate whose quota is exhausted stays waiting in
\* every step, however much time passes; a waiting caller leaves
\* wait_for_capacity only by a reservation that lets it go on to the request,
\* never with an error or a timeout.
C11_BlockedWhileExhausted ==
    [][\A t \in Threads :
          tpc[t] = "wait" =>
             /\ Exhausted(tgate[t]) => tpc'[t] = "wait"
             /\ tpc'[t] \in {"wait", "request"}
             /\ tpc'[t] = "request" =>
                   /\ tacq'[t] = tacq[t] + 1
                   /\ tresult'[t] = "-"]_vars

\* C11 witness: a caller is waiting because the day's quota is used up,
\* although the minute window has emptied again after more than 60 seconds.
C11_Witness ==
    \E t \in Threads :
        /\ tpc[t] = "wait"
        /\ tgate[t] = SharedGate
        /\ InWindow(SharedGate, now) = {}
        /\ Cardinality(OnDay(SharedGate, tm_yday(now))) >= qpd_limit
        /\ now >= StartTime + WindowSeconds

----------------------------------------------------------------------------
(* Idea synthesis: generate_content_ideas (repurpose.py) and the paths that *)
(* lead to it.  A run is one text handed to one entry path.                 *)

MaxRawIdeas == 3

min_transcript_len == 50
idea_title_max == 100
\* positional parameters generate_content_ideas accepts, and the positional
\* arguments the handlers of main.py pass to it
ideas_params == 3
main_args == 4
\* len("Transcript unavailable"), the text process_video stores when no
\* transcript could be fetched
unavailable_len == 22

TextLens == {0, unavailable_len, min_transcript_len - 1, min_transcript_len,
             min_transcript_len + 1}

IdeaDict(ty, ti, sn) ==
    [suggested_content_type |-> ty, suggested_title |-> ti,
     relevant_transcript_snippet |-> sn]

\* elements the backend may put into the ideas list: two that parse as a
\* ContentIdea, then a type outside the Literal, a title of 101 characters
\* and a missing snippet
IdeaElems ==
    {IdeaDict("reel", 10, 5), IdeaDict("tweet", idea_title_max, 5),
     IdeaDict("story", 10, 5), IdeaDict("reel", idea_title_max + 1, 5),
     IdeaDict("image_carousel", 10, NoneV)}

RawIdeaLists == UNION {[1..n -> IdeaElems] : n \in 0..MaxRawIdeas}

\* what generate_content returns to generate_content_ideas: None, a JSON
\* object whose "ideas" is not a list, or one whose "ideas" is a list
IdeaResponses ==
    {[rv |-> "None", is_list |-> FALSE, ideas |-> <<>>],
     [rv |-> "emptyobj", is_list |-> FALSE, ideas |-> <<>>],
     [rv |-> "obj", is_list |-> FALSE, ideas |-> <<>>]}
    \cup {[rv |-> "obj", is_list |-> TRUE, ideas |-> l] : l \in RawIdeaLists}

(* the ContentIdea constructor accepts the element *)
ContentIdeaOk(e) ==
    /\ e.suggested_content_type \in ContentTypes
    /\ e.suggested_title # NoneV
    /\ e.suggested_title <= idea_title_max
    /\ e.relevant_transcript_snippet # NoneV

(* the value generate_content_ideas returns for a response: the raw list,   *)
(* or None ("None" here)                                                    *)
ReturnsList(r) == Truthy(r) /\ r.is_list

(* GeneratedIdeas(ideas=raw_ideas): one element that does not parse raises  *)
(* ValidationError for the whole list                                       *)
GeneratedIdeasOk(l) == \A k \in DOMAIN l : ContentIdeaOk(l[k])

(* the loop of process_video: elements that do not parse are skipped *)
ParseEach(l) == SelectSeq(l, ContentIdeaOk)

(* "if not transcript_text or len(transcript_text) < 50" of process_videos *)
TooShort(n) == n = 0 \/ n < min_transcript_len

(* Python binds the arguments before the body runs: more positional         *)
(* arguments than parameters raise TypeError                                *)
BindsArgs(nargs) == nargs <= ideas_params

IdeasInit ==
    /\ RestIdeasIdle
    /\ ipath = "-"
    /\ itext \in TextLens
    /\ ipc = "start"
    /\ icalls = 0
    /\ iresp = [rv |-> "None", is_list |-> FALSE, ideas |-> <<>>]
    /\ iout = "-"
    /\ iideas = <<>>

(* the body of generate_content_ideas: one generate_content call whatever   *)
(* the text, then the test of the response                                  *)
IdeasBody(r) ==
    /\ icalls' = icalls + 1
    /\ iresp' = r

Finish(path, out, l) ==
    /\ ipath' = path
    /\ ipc' = "done"
    /\ iout' = out
    /\ iideas' = l
    /\ UNCHANGED <<itext, rest_ivars>>

(* generate_content_ideas called with the text alone, as test_gen.py does   *)
CallIdeas ==
    /\ ipc = "start"
    /\ \E r \in IdeaResponses :
         /\ IdeasBody(r)
         /\ IF ReturnsList(r)
            THEN Finish("generate_content_ideas", "ideas", r.ideas)
            ELSE Finish("generate_content_ideas", "None", <<>>)

(* one video of process_videos, up to the validated ideas *)
ProcessVideos ==
    /\ ipc = "start"
    /\ IF TooShort(itext)
       THEN /\ Finish("process_videos", "skipped", <<>>)
            /\ UNCHANGED <<icalls, iresp>>
       ELSE \E r \in IdeaResponses :
              /\ IdeasBody(r)
              /\ IF ~ReturnsList(r) \/ r.ideas = <<>>
                 THEN Finish("process_videos", "skipped", <<>>)
                 ELSE IF GeneratedIdeasOk(r.ideas)
                 THEN Finish("process_videos", "ideas", r.ideas)
                 ELSE Finish("process_videos", "rejected", <<>>)

(* process_video of main.py, from the transcript check to the parsed ideas; *)
(* the call passes main_args positional arguments                           *)
ProcessVideo ==
    /\ ipc = "start"
    /\ IF itext = 0
       THEN /\ Finish("process_video", "HTTPException", <<>>)
            /\ UNCHANGED <<icalls, iresp>>
       ELSE IF ~BindsArgs(main_args)
       THEN /\ Finish("process_video", "TypeError", <<>>)
            /\ UNCHANGED <<icalls, iresp>>
       ELSE \E r \in IdeaResponses :
              /\ IdeasBody(r)
              /\ IF ReturnsList(r)
                 THEN Finish("process_video", "ideas", ParseEach(r.ideas))
                 ELSE Finish("process_video", "HTTPException", <<>>)

(* process_document of main.py: parse_document refuses a text of fewer than *)
(* 50 characters, then the same call as process_video, then every element   *)
(* is parsed in one list comprehension                                      *)
ProcessDocument ==
    /\ ipc = "start"
    /\ IF TooShort(itext)
       THEN /\ Finish("process_document", "ValueError", <<>>)
            /\ UNCHANGED <<icalls, iresp>>
       ELSE IF ~BindsArgs(main_args)
       THEN /\ Finish("process_document", "TypeError", <<>>)
            /\ UNCHANGED <<icalls, iresp>>
       ELSE \E r \in IdeaResponses :
              /\ IdeasBody(r)
              /\ IF ~ReturnsList(r) \/ r.ideas = <<>>
                 THEN Finish("process_document", "HTTPException", <<>>)
                 ELSE IF GeneratedIdeasOk(r.ideas)
                 THEN Finish("process_document", "ideas", r.ideas)
                 ELSE Finish("process_document", "ValidationError", <<>>)

IdeasNext == CallIdeas \/ ProcessVideos \/ ProcessVideo \/ ProcessDocument

SpecIdeas == IdeasInit /\ [][IdeasNext]_vars

\* the run went through the body of generate_content_ideas and the backend
\* returned an object whose ideas value is a list
GotIdeasList == ipc = "done" /\ icalls > 0 /\ ReturnsList(iresp)

\* C12: idea synthesis on a text shorter than 50 characters issues no
\* backend call and yields none, on every path into generate_content_ideas.
C12_ShortTextNoCall ==
    (ipc = "done" /\ itext < min_transcript_len) =>
        /\ icalls = 0
        /\ iout # "ideas"

\* C13: when the backend returns an ideas list, the synthesis yields exactly
\* its well-formed elements in their order; bad elements are left out and do
\* not reject the batch.
C13_WellFormedKept ==
    GotIdeasList =>
        /\ iout = "ideas"
        /\ iideas = SelectSeq(iresp.ideas, ContentIdeaOk)

----------------------------------------------------------------------------
(* Response parsing of generate_content on its own: one response text per   *)
(* run, taken through the strip, the fence removal and json.loads.          *)

\* optional whitespace (a newline after the fence, a trailing blank)
Blanks == {<<>>, <<" ">>}
\* an opening fence, or none
Openers == {<<>>, FenceJson, Fence}
Closers == {<<>>, Fence}
\* two JSON objects and a text that is not JSON
Payloads == {ObjText, EmptyObjText, <<"x">>}

FenceBodies ==
    {a \o op \o b \o pl \o c \o cl \o d :
        a \in Blanks, op \in Openers, b \in Blanks, pl \in Payloads,
        c \in Blanks, cl \in Closers, d \in Blanks}

FenceInit ==
    /\ RestFenceIdle
    /\ fbody \in FenceBodies
    /\ fpc = "start"
    /\ freturn = "-"

(* generate_content from the response on: the try block and its handler *)
ParseResponse ==
    /\ fpc = "start"
    /\ freturn' = ExceptHandler(TryBlock([kind |-> "text", body |-> fbody]))
    /\ fpc' = "done"
    /\ UNCHANGED <<fbody, rest_fvars>>

FenceNext == ParseResponse

SpecFence == FenceInit /\ [][FenceNext]_vars

\* text o between an opening fence op and a closing fence, with optional
\* whitespace around the object and around the whole
Wrapped(b, op, o) ==
    \E x \in Blanks, y \in Blanks : Strip(b) = op \o x \o o \o y \o Fence

\* C14: a valid JSON object inside a json fence or inside a bare fence is
\* returned as the parsed object of the fenced text, and a valid JSON object
\* without a fence is returned as it is.
C14_FencedObjectParsed ==
    fpc = "done" =>
        \A o \in {ObjText, EmptyObjText} :
            (\/ Wrapped(fbody, FenceJson, o)
             \/ Wrapped(fbody, Fence, o)
             \/ Strip(fbody) = o)
            => freturn = json_loads(o)

----------------------------------------------------------------------------
(* Editing: edit_content_piece_with_diff (repurpose.py) and the             *)
(* edit_content_piece handler of main.py with the stored text it rewrites.  *)

MaxStored == 2

(* edited_content['content_id'] = original_content.get('content_id') *)
PreserveId_trust(edited, original) == edited

PreserveId(edited, original) ==
    [edited EXCEPT !.content_id = original.content_id]

(* content_type: Literal[...] of the model: the field, when the dict has    *)
(* it, must name the model's own type                                       *)
TypeFieldOk(ct, c) == c.content_type \in {ct, ""}

(* the if/elif chain on the content_type argument; the model is chosen by   *)
(* the argument, not by the response                                        *)
ValidateAs_unknownOk(ct, c) ==
    IF ct = "reel"
    THEN IF ReelOk(c) /\ TypeFieldOk(ct, c) THEN "ok" ELSE "ValidationError"
    ELSE IF ct = "image_carousel"
    THEN IF ImageCarouselOk(c) /\ TypeFieldOk(ct, c)
         THEN "ok" ELSE "ValidationError"
    ELSE IF ct = "tweet"
    THEN IF TweetOk(c) /\ TypeFieldOk(ct, c) THEN "ok" ELSE "ValidationError"
    ELSE "ok"

ValidateAs(ct, c) ==
    IF ct = "reel"
    THEN IF ReelOk(c) /\ TypeFieldOk(ct, c) THEN "ok" ELSE "ValidationError"
    ELSE IF ct = "image_carousel"
    THEN IF ImageCarouselOk(c) /\ TypeFieldOk(ct, c)
         THEN "ok" ELSE "ValidationError"
    ELSE IF ct = "tweet"
    THEN IF TweetOk(c) /\ TypeFieldOk(ct, c) THEN "ok" ELSE "ValidationError"
    ELSE "unknown_type"

(* the try blocks of edit_content_piece_with_diff after the one             *)
(* generate_content call: the value returned or the exception raised, and   *)
(* the number of models built                                               *)
EditTry(original, ct, r) ==
    IF ~Truthy(r)
    THEN [exc |-> "-", ret |-> NoContent, validated |-> 0]
    ELSE LET c == PreserveId(r, original)
             v == ValidateAs(ct, c)
         IN  IF v = "unknown_type"
             THEN [exc |-> "-", ret |-> NoContent, validated |-> 0]
             ELSE IF v = "ok"
             THEN [exc |-> "-", ret |-> c, validated |-> 1]
             ELSE [exc |-> v, ret |-> NoContent, validated |-> 1]

(* except ValidationError: return None / except Exception: return None *)
EditExcept(t) ==
    IF t.exc # "-" THEN [t EXCEPT !.exc = "-", !.ret = NoContent] ELSE t

EditWithDiff(original, ct, r) == EditExcept(EditTry(original, ct, r))


(* The stored text, one token per element: the heading, the repr of the     *)
(* ideas, the marker "Content Pieces:", the JSON text of each piece and the *)
(* separator between pieces.  A text that contains the marker inside a      *)
(* string is a head, the marker and a tail.                                 *)
Tok(k, c) == [tok |-> k, of |-> c]
Mark == Tok("Content Pieces:", NoContent)
Sep == Tok("---", NoContent)

(* repr(ideas_data_raw); m: the text of some idea contains the marker *)
IdeasRepr(m) ==
    IF m THEN <<Tok("ideas_head", NoContent), Mark, Tok("ideas_tail", NoContent)>>
    ELSE <<Tok("ideas", NoContent)>>

(* p.model_dump_json(indent=2); m: a string of the piece contains the marker *)
model_dump_json(c, m) ==
    IF m THEN <<Tok("head", c), Mark, Tok("tail", c)>> ELSE <<Tok("json", c)>>

(* json.dumps(piece, indent=2) of a parsed or edited piece *)
json_dumps(c) == <<Tok("json", c)>>

(* sep.join(parts) *)
RECURSIVE Join(_, _)
Join(parts, sep) ==
    IF parts = <<>> THEN <<>>
    ELSE IF Len(parts) = 1 THEN parts[1]
    ELSE parts[1] \o <<sep>> \o Join(Tail(parts), sep)

(* str.split(sep): the segments between the occurrences of sep *)
RECURSIVE Split(_, _)
Split(s, sep) ==
    IF \A k \in DOMAIN s : s[k] # sep THEN <<s>>
    ELSE LET i == CHOOSE k \in DOMAIN s :
                     s[k] = sep /\ \A j \in 1..(k - 1) : s[j] # sep
         IN  <<SubSeq(s, 1, i - 1)>> \o Split(SubSeq(s, i + 1, Len(s)), sep)

(* json.loads(piece_json.strip()) succeeds *)
Parses(part) == Len(part) = 1 /\ part[1].tok = "json"

EditOwner == "dQw4w9WgXcQ"
EditTypes == ContentTypes \cup {"story"}

GoodOf(ty) ==
    IF ty = "reel" THEN GoodReel
    ELSE IF ty = "tweet" THEN GoodTweet ELSE GoodCarousel

(* the k-th piece process_video stored: the model instance with its id *)
StoredPiece(ty, k) == ModelOf(WithId(GoodOf(ty), content_id_of(EditOwner, k)))

(* db_video.repurposed_text as process_video writes it; tm gives, for each  *)
(* piece, its type and whether one of its strings contains the marker       *)
StoredText(im, tm) ==
    <<Tok("Ideas:", NoContent)>> \o IdeasRepr(im) \o <<Mark>>
    \o Join([k \in DOMAIN tm |->
                model_dump_json(StoredPiece(tm[k][1], k), tm[k][2])], Sep)

StoredTexts ==
    {StoredText(im, tm) :
        im \in BOOLEAN,
        tm \in UNION {[1..n -> ContentTypes \X BOOLEAN] : n \in 0..MaxStored}}

EditInit ==
    /\ RestEditIdle
    /\ epath = "-"
    /\ epc = "start"
    /\ estored \in StoredTexts
    /\ ereqid \in 1..MaxStored
    /\ etype \in EditTypes
    /\ eorig = NoContent
    /\ eresp = NoContent
    /\ ecalls = 0
    /\ evalidated = 0
    /\ eret = NoContent
    /\ eout = "-"

(* original_content values handed to the function directly *)
Originals ==
    {StoredPiece(ty, 1) : ty \in ContentTypes} \cup {GoodReel}

(* edit_content_piece_with_diff(original, prompt, etype) *)
EditFunction ==
    /\ epc = "start"
    /\ \E original \in Originals, r \in Responses :
         LET e == EditWithDiff(original, etype, r)
         IN  /\ eorig' = original
             /\ eresp' = r
             /\ ecalls' = ecalls + 1
             /\ evalidated' = e.validated
             /\ eret' = e.ret
             /\ eout' = IF e.exc # "-" THEN "raised" ELSE "returned"
    /\ epath' = "function"
    /\ epc' = "done"
    /\ UNCHANGED <<estored, ereqid, etype, rest_evars>>

(* the pieces the handler reads back from the stored text: the part after   *)
(* the last marker, split at the separator, parts that do not parse dropped *)
ReadPieces(text) ==
    LET segs == Split(text, Mark)
        parts == Split(segs[Len(segs)], Sep)
        good == SelectSeq(parts, Parses)
    IN  [k \in DOMAIN good |-> good[k][1].of]

(* the stored text the handler writes: the part before the first marker,    *)
(* the marker, the pieces joined by the separator                           *)
Rewrite(text, pieces) ==
    Split(text, Mark)[1] \o <<Mark>>
    \o Join([k \in DOMAIN pieces |-> json_dumps(pieces[k])], Sep)

Replace(pieces, id, edited) ==
    [k \in DOMAIN pieces |->
        IF pieces[k].content_id = id THEN edited ELSE pieces[k]]

EndEdit(out) ==
    /\ eout' = out
    /\ epath' = "endpoint"
    /\ epc' = "done"
    /\ UNCHANGED <<ereqid, etype, rest_evars>>

(* edit_content_piece of main.py *)
EditEndpoint ==
    /\ epc = "start"
    /\ LET content_pieces == ReadPieces(estored)
           id == content_id_of(EditOwner, ereqid)
           found == {k \in DOMAIN content_pieces :
                        content_pieces[k].content_id = id}
       IN  IF found = {}
           THEN /\ EndEdit("404")
                /\ UNCHANGED <<estored, eorig, eresp, ecalls, evalidated, eret>>
           ELSE LET original == content_pieces[CHOOSE k \in found :
                                                 \A j \in found : j <= k]
                IN  IF original.content_type # etype
                    THEN /\ EndEdit("400")
                         /\ eorig' = original
                         /\ UNCHANGED <<estored, eresp, ecalls, evalidated,
                                        eret>>
                    ELSE \E r \in Responses :
                           LET e == EditWithDiff(original, etype, r)
                           IN  /\ eorig' = original
                               /\ eresp' = r
                               /\ ecalls' = ecalls + 1
                               /\ evalidated' = e.validated
                               /\ eret' = e.ret
                               /\ IF e.exc # "-"
                                  THEN EndEdit("raised")
                                       /\ UNCHANGED estored
                                  ELSE IF ~Truthy(e.ret)
                                  THEN EndEdit("failed")
                                       /\ UNCHANGED estored
                                  ELSE /\ EndEdit("success")
                                       /\ estored' =
                                            Rewrite(estored,
                                              Replace(content_pieces, id,
                                                      e.ret))

EditNext == EditFunction \/ EditEndpoint

SpecEdit == EditInit /\ [][EditNext]_vars

\* the run called edit_content_piece_with_diff
Edited == epc = "done" /\ eout \in {"returned", "raised", "success", "failed"}

\* response r breaks the schema of the requested type ct: a bound or a
\* required field of that type, or a type field naming another type
FailsSchemaOf(ct, r) ==
    /\ r.rv = "obj"
    /\ ct \in ContentTypes
    /\ \/ ~Conforms([r EXCEPT !.content_type = ct])
       \/ r.content_type \notin {ct, ""}

\* C15: one edit makes exactly one backend call and validates the response
\* once against the schema of the requested type; with no result, an unknown
\* type or a failed validation it returns none, with no repair and no second
\* call; it never raises.
C15_SingleCallNoRepair ==
    Edited =>
        /\ ecalls = 1
        /\ eout # "raised"
        /\ evalidated =
              IF eresp.rv = "obj" /\ etype \in ContentTypes THEN 1 ELSE 0
        /\ (\/ eresp.rv # "obj"
            \/ etype \notin ContentTypes
            \/ FailsSchemaOf(etype, eresp)) => eret = NoContent

\* C15 witness: the function was called with a type it does not know and a
\* well-formed response, and returned none.
C15_Witness ==
    /\ Edited
    /\ epath = "function"
    /\ etype \notin ContentTypes
    /\ Compliant(eresp)
    /\ eret = NoContent

\* C16: an artifact returned by the edit carries the id of the original,
\* whatever id the response carried.
C16_IdOfOriginal ==
    (Edited /\ eret # NoContent) => eret.content_id = eorig.content_id

\* C16 witness: the response carried an id of its own and the edit returned
\* an artifact.
C16_Witness ==
    /\ Edited
    /\ eret # NoContent
    /\ eresp.content_id = LlmId
    /\ eorig.content_id # LlmId

\* the artifacts and the ideas a stored text holds, as they were written
WrittenPieces(text) ==
    LET toks == SelectSeq(text, LAMBDA t : t.tok \in {"json", "head"})
    IN  [k \in DOMAIN toks |-> toks[k].of]

WrittenIdeas(text) ==
    SelectSeq(text, LAMBDA t : t.tok \in {"ideas", "ideas_head", "ideas_tail"})

\* C17: an edit request for the artifact with id X changes only that
\* artifact: after a successful edit the stored list has the same length
\* and order, the entry with id X is the edited artifact, every other entry
\* and the ideas section are as before; after a failed edit the stored
\* content is as before.
C17_EditChangesOnlyTarget ==
    [][(epc = "start" /\ epath' = "endpoint") =>
          /\ eout' = "success" =>
                LET old == WrittenPieces(estored)
                    new == WrittenPieces(estored')
                    id == content_id_of(EditOwner, ereqid)
                IN  /\ Len(new) = Len(old)
                    /\ \A k \in DOMAIN old :
                          new[k] = IF old[k].content_id = id
                                   THEN eret' ELSE old[k]
                    /\ WrittenIdeas(estored') = WrittenIdeas(estored)
          /\ eout' # "success" => estored' = estored]_vars

----------------------------------------------------------------------------
(* identify_content_changes (repurpose.py).  A dict is a function from its  *)
(* keys; a scalar value is its Python type together with the text str()     *)
(* gives for it, so that None and the string "None" are different values    *)
(* with the same str().                                                     *)

MaxSlideList == 2

Scalar(t, s) == [t |-> t, s |-> s]
StrA == Scalar("str", "a")
StrB == Scalar("str", "b")
StrNone == Scalar("str", "None")
PyNone == Scalar("NoneType", "None")

(* str(v) of a scalar *)
Str(v) == v.s

(* str(v) of a list of dicts: the repr of every element, which tells None   *)
(* from the string "None"                                                   *)
StrList(l) == l

\* the order in which the keys of a dict come
Keys == <<"title", "caption", "slides", "hashtags">>
SlideKeys == <<"step_heading", "text">>

DictOf(ti, ca, sl, ha) ==
    [k \in {"title"} \cup (IF ca = <<>> THEN {} ELSE {"caption"})
           \cup (IF sl = <<>> THEN {} ELSE {"slides"})
           \cup (IF ha = <<>> THEN {} ELSE {"hashtags"}) |->
        IF k = "title" THEN ti
        ELSE IF k = "caption" THEN ca[1]
        ELSE IF k = "slides" THEN sl[1]
        ELSE ha[1]]

SlideDicts ==
    {[k \in {"step_heading", "text"} |-> StrA],
     [k \in {"step_heading", "text"} |-> IF k = "text" THEN StrA ELSE StrB],
     [k \in {"step_heading"} |-> StrA]}

SlideLists == UNION {[1..n -> SlideDicts] : n \in 0..MaxSlideList}

\* each optional argument of DictOf is <<>> for an absent key, <<v>> for v
Artifacts ==
    {DictOf(ti, ca, sl, ha) :
        ti \in {StrA, StrB},
        ca \in {<<>>, <<StrA>>, <<StrNone>>, <<PyNone>>},
        sl \in {<<>>} \cup {<<l>> : l \in SlideLists},
        ha \in {<<>>, <<StrA>>}}

Entry(kind, key, idx, from, to) ==
    [kind |-> kind, key |-> key, idx |-> idx, from |-> from, to |-> to]

FieldChanged(k) == Entry("changed", k, 0, 0, 0)
SlideCountChanged(n, m) == Entry("slides_count", "slides", 0, n, m)
SlideFieldChanged(i, sk) == Entry("slide", sk, i, 0, 0)
FieldAdded(k) == Entry("added", k, 0, 0, 0)
NoChanges == Entry("No changes detected", "", 0, 0, 0)

(* str(original[key]) != str(edited[key]) *)
StrDiffers(k, a, b) ==
    IF k = "slides" THEN StrList(a) # StrList(b) ELSE Str(a) # Str(b)

(* for slide_key in orig_slide.keys(): ... *)
RECURSIVE SlideKeyChanges(_, _, _, _)
SlideKeyChanges(i, os, es, sks) ==
    IF sks = <<>> THEN <<>>
    ELSE LET sk == Head(sks)
         IN  (IF /\ sk \in DOMAIN os
                 /\ sk \in DOMAIN es
                 /\ Str(os[sk]) # Str(es[sk])
              THEN <<SlideFieldChanged(i, sk)>> ELSE <<>>)
             \o SlideKeyChanges(i, os, es, Tail(sks))

(* for i, (orig_slide, edit_slide) in enumerate(zip(...)) *)
RECURSIVE SlideChanges(_, _, _)
SlideChanges(ol, el, i) ==
    IF i > Len(ol) \/ i > Len(el) THEN <<>>
    ELSE SlideKeyChanges(i, ol[i], el[i], SlideKeys)
         \o SlideChanges(ol, el, i + 1)

(* for key in original.keys(): ... *)
RECURSIVE KeyChanges(_, _, _)
KeyChanges(o, e, ks) ==
    IF ks = <<>> THEN <<>>
    ELSE LET k == Head(ks)
         IN  (IF k \in DOMAIN o /\ k \in DOMAIN e /\ StrDiffers(k, o[k], e[k])
              THEN IF k = "slides"
                   THEN IF Len(o[k]) # Len(e[k])
                        THEN <<SlideCountChanged(Len(o[k]), Len(e[k]))>>
                        ELSE SlideChanges(o[k], e[k], 1)
                   ELSE <<FieldChanged(k)>>
              ELSE <<>>)
             \o KeyChanges(o, e, Tail(ks))

(* for key in edited.keys(): if key not in original: ... *)
RECURSIVE NewKeys(_, _, _)
NewKeys(o, e, ks) ==
    IF ks = <<>> THEN <<>>
    ELSE (IF Head(ks) \in DOMAIN e /\ Head(ks) \notin DOMAIN o
          THEN <<FieldAdded(Head(ks))>> ELSE <<>>)
         \o NewKeys(o, e, Tail(ks))

identify_content_changes(o, e) ==
    LET found == KeyChanges(o, e, Keys) \o NewKeys(o, e, Keys)
    IN  IF found # <<>> THEN found ELSE <<NoChanges>>

ChangesInit ==
    /\ RestChangesIdle
    /\ corig \in Artifacts
    /\ cedit \in Artifacts
    /\ cpc = "start"
    /\ changes = <<>>

Identify ==
    /\ cpc = "start"
    /\ changes' = identify_content_changes(corig, cedit)
    /\ cpc' = "done"
    /\ UNCHANGED <<corig, cedit, rest_cvars>>

ChangesNext == Identify

SpecChanges == ChangesInit /\ [][ChangesNext]_vars

\* the entries of the reference: fields of the original (slides apart) whose
\* value differs in the edited dict, the slide count or the differing
\* sub-fields of slides at the same index, and the fields added
RefFieldEntries(o, e) ==
    {FieldChanged(k) : k \in {j \in (DOMAIN o \cap DOMAIN e) \ {"slides"} :
                                 o[j] # e[j]}}

RefSlideEntries(o, e) ==
    IF "slides" \notin DOMAIN o \cap DOMAIN e THEN {}
    ELSE IF Len(o["slides"]) # Len(e["slides"])
    THEN {SlideCountChanged(Len(o["slides"]), Len(e["slides"]))}
    ELSE UNION {{SlideFieldChanged(i, sk) :
                    sk \in {j \in DOMAIN o["slides"][i] \cap DOMAIN e["slides"][i] :
                               o["slides"][i][j] # e["slides"][i][j]}} :
                i \in 1..Len(o["slides"])}

RefAddedEntries(o, e) == {FieldAdded(k) : k \in DOMAIN e \ DOMAIN o}

RefEntries(o, e) ==
    RefFieldEntries(o, e) \cup RefSlideEntries(o, e) \cup RefAddedEntries(o, e)

\* C18: the list identify_content_changes returns holds exactly the entries
\* of the reference, each once: one per differing top-level field other
\* than slides, the slide count change or else one per differing sub-field
\* at each index, one per added field; and the single entry "No changes
\* detected" when there is none, as for two equal arguments.
C18_ChangesEqualReference ==
    cpc = "done" =>
        LET ref == RefEntries(corig, cedit)
            got == {changes[k] : k \in DOMAIN changes}
        IN  /\ Len(changes) = Cardinality(got)
            /\ got = IF ref = {} THEN {NoChanges} ELSE ref

----------------------------------------------------------------------------
(* Brain sessions: BrainService.create_session / update_session_status and  *)
(* the five generate_* methods of BrainContentGenerator.  A run is one call *)
(* of a generate_* method; its steps are separated by the commits it makes. *)

MaxRuns == 2

Modes == {"vision", "full_ai_single", "full_ai_multiple", "full_ai_auto",
          "hybrid"}

\* completed_at of a row that has none
Unset == 0

(* the row create_session commits *)
NewSession(mode) ==
    [mode |-> mode, status |-> "pending", completed_at |-> Unset,
     error_message |-> "", stamps |-> 0]

(* update_session_status(session_id, status, error_message=...): the status *)
(* is assigned whatever it was; completed_at is assigned on each call with  *)
(* a terminal status                                                        *)
UpdateStatus(s, status, err, t) ==
    [s EXCEPT !.status = status,
              !.error_message = IF err # "" THEN err ELSE @,
              !.completed_at = IF status \in {"completed", "failed"}
                               THEN t ELSE @,
              !.stamps = IF status \in {"completed", "failed"}
                         THEN @ + 1 ELSE @]

\* what generate_content hands to _generate_content_pieces: None, an object
\* without "content_pieces", or an object whose "content_pieces" is an empty
\* list, a list of pieces, null or a number
BrainResponses == {"None", "no_key", "empty_list", "list", "null", "number"}

(* if result and "content_pieces" in result: return result["content_pieces"] *)
(* return []                                                                *)
ContentPieces(r) ==
    IF r \in {"None", "no_key"} THEN "empty_list" ELSE r

(* the exception the gathering step of a mode raises, "-" for none.  Vision *)
(* mode subscripts the BrainSource object of each match, which raises       *)
(* TypeError as soon as there is a match; the other modes raise ValueError  *)
(* when no source is found                                                  *)
GatherError(mode, found) ==
    IF mode = "vision"
    THEN IF found THEN "'BrainSource' object is not subscriptable" ELSE "-"
    ELSE IF found THEN "-"
    ELSE IF mode = "full_ai_single" THEN "Source not found"
    ELSE IF mode = "full_ai_multiple" THEN "No valid sources found"
    ELSE IF mode = "full_ai_auto" THEN "No sources found matching criteria"
    ELSE "No valid user-selected sources found"

(* json.dumps(generated_content) and len(generated_content) inside          *)
(* update_session_status, skipped when generated_content is None            *)
StoreError(c) ==
    IF c = "number" THEN "object of type 'int' has no len()" ELSE "-"

(* the dict the method returns: every mode but vision takes                 *)
(* len(generated_content)                                                   *)
ResultError(mode, c) ==
    IF mode # "vision" /\ c = "null"
    THEN "object of type 'NoneType' has no len()"
    ELSE IF mode # "vision" /\ c = "number"
    THEN "object of type 'int' has no len()"
    ELSE "-"

(* error_message=str(e) *)
ErrorOf_generic(e) == "Generation failed"

ErrorOf(e) == e

Current == Len(sessions)

BrainInit ==
    /\ RestBrainIdle
    /\ sessions = <<>>
    /\ bpc = "idle"
    /\ bmode = ""
    /\ bfound = FALSE
    /\ bresp = "-"
    /\ bcontent = "-"
    /\ bexc = "-"
    /\ bout = "-"
    /\ braised = "-"
    /\ bclock = 0

(* a generate_* method is called: create_session *)
StartRun ==
    /\ bpc = "idle"
    /\ Len(sessions) < MaxRuns
    /\ \E mode \in Modes :
         /\ bmode' = mode
         /\ sessions' = Append(sessions, NewSession(mode))
    /\ bpc' = "gather"
    /\ bfound' = FALSE
    /\ bresp' = "-"
    /\ bcontent' = "-"
    /\ bexc' = "-"
    /\ bout' = "-"
    /\ braised' = "-"
    /\ UNCHANGED <<bclock, rest_bvars>>

(* source gathering up to the synthesis call *)
Gather ==
    /\ bpc = "gather"
    /\ \E found \in BOOLEAN :
         /\ bfound' = found
         /\ bexc' = GatherError(bmode, found)
         /\ bpc' = IF GatherError(bmode, found) # "-" THEN "except"
                   ELSE "synthesize"
    /\ UNCHANGED <<sessions, bmode, bresp, bcontent, bout, braised, bclock,
                   rest_bvars>>

(* _generate_content_pieces / _generate_multiple_content_pieces *)
Synthesize ==
    /\ bpc = "synthesize"
    /\ \E r \in BrainResponses :
         /\ bresp' = r
         /\ bcontent' = ContentPieces(r)
    /\ bpc' = "complete"
    /\ UNCHANGED <<sessions, bmode, bfound, bexc, bout, braised, bclock,
                   rest_bvars>>

(* update_session_status(session_id, status="completed", ...) *)
Complete ==
    /\ bpc = "complete"
    /\ IF StoreError(bcontent) # "-"
       THEN /\ bexc' = StoreError(bcontent)
            /\ bpc' = "except"
            /\ UNCHANGED <<sessions, bclock>>
       ELSE /\ bclock' = bclock + 1
            /\ sessions' = [sessions EXCEPT ![Current] =
                               UpdateStatus(@, "completed", "", bclock + 1)]
            /\ bpc' = "result"
            /\ UNCHANGED bexc
    /\ UNCHANGED <<bmode, bfound, bresp, bcontent, bout, braised, rest_bvars>>

(* return {...}, still inside the try block *)
Result ==
    /\ bpc = "result"
    /\ IF ResultError(bmode, bcontent) # "-"
       THEN /\ bexc' = ResultError(bmode, bcontent)
            /\ bpc' = "except"
            /\ UNCHANGED bout
       ELSE /\ bout' = "returned"
            /\ bpc' = "idle"
            /\ UNCHANGED bexc
    /\ UNCHANGED <<sessions, bmode, bfound, bresp, bcontent, braised, bclock,
                   rest_bvars>>

(* except Exception as e: update_session_status(failed, str(e)); raise *)
Except ==
    /\ bpc = "except"
    /\ bclock' = bclock + 1
    /\ sessions' = [sessions EXCEPT ![Current] =
                       UpdateStatus(@, "failed", ErrorOf(bexc), bclock + 1)]
    /\ bout' = "raised"
    /\ braised' = bexc
    /\ bpc' = "idle"
    /\ UNCHANGED <<bmode, bfound, bresp, bcontent, bexc, rest_bvars>>

BrainNext ==
    StartRun \/ Gather \/ Synthesize \/ Complete \/ Result \/ Except

SpecBrain == BrainInit /\ [][BrainNext]_vars

Terminal == {"completed", "failed"}

\* C19: a session is created pending with no completedAt; its status only
\* moves into completed or failed, and a completed or failed session keeps
\* its status and its completedAt in every later step; completedAt is unset
\* exactly while the session is pending and is written at most once.
C19_SessionLifecycle ==
    [][/\ \A i \in DOMAIN sessions' \ DOMAIN sessions :
             /\ sessions'[i].status = "pending"
             /\ sessions'[i].completed_at = Unset
       /\ \A i \in DOMAIN sessions :
             /\ sessions'[i].status \in {"pending"} \cup Terminal
             /\ sessions[i].status \in Terminal =>
                   /\ sessions'[i].status = sessions[i].status
                   /\ sessions'[i].completed_at = sessions[i].completed_at
             /\ sessions'[i].status = "pending" <=>
                   sessions'[i].completed_at = Unset
             /\ sessions'[i].stamps <= 1]_vars

\* C20: in each mode, a run in which an exception was raised ends with the
\* session stored as failed with the message of that exception, and with the
\* same exception raised to the caller; it never returns a result.
C20_FailureRecordedAndRaised ==
    /\ bout = "returned" => bexc = "-"
    /\ (bpc = "idle" /\ bexc # "-") =>
          /\ bout = "raised"
          /\ braised = bexc
          /\ sessions[Current].mode = bmode
          /\ sessions[Current].status = "failed"
          /\ sessions[Current].error_message = bexc

\* C20 witness: a vision run failed while gathering, then a hybrid run that
\* found none of the selected sources ended the same way.
C20_Witness ==
    /\ Len(sessions) = 2
    /\ sessions[1].mode = "vision"
    /\ sessions[1].status = "failed"
    /\ bmode = "hybrid"
    /\ bpc = "idle"
    /\ bout = "raised"
    /\ braised = "No valid user-selected sources found"
    /\ sessions[2].status = "failed"

----------------------------------------------------------------------------
(* The source store: BrainService.get_source / get_sources / search_sources *)
(* / increment_use_count.  A source is named by its id; the ids of a store  *)
(* are listed most recently updated first, the order get_sources reads them *)
(* in.  Scores are hundredths.                                              *)

\* s[:n] for n >= 0
Take(s, n) ==
    IF n <= 0 THEN <<>>
    ELSE SubSeq(s, 1, IF n < Len(s) THEN n ELSE Len(s))

(* results.sort(key=lambda x: x["score"], reverse=True): list.sort is       *)
(* stable, so entries of equal score keep the order they were appended in   *)
RECURSIVE SortDesc(_, _)
SortDesc(s, sc) ==
    IF s = <<>> THEN <<>>
    ELSE LET n == Len(s)
             p == SortDesc(SubSeq(s, 1, n - 1), sc)
             k == Cardinality({i \in DOMAIN p : sc[p[i]] >= sc[s[n]]})
         IN  SubSeq(p, 1, k) \o <<s[n]>> \o SubSeq(p, k + 1, Len(p))

(* get_sources(filters, limit): the rows that pass the filters, ordered by  *)
(* updated_at descending, cut to limit                                      *)
get_sources(order, pass, limit) ==
    Take(SelectSeq(order, LAMBDA i : i \in pass), limit)

\* limit * 3 of search_sources
search_fetch_factor == 3

(* search_sources(query, filters, limit, min_score); sc[i] is what          *)
(* _calculate_relevance_score returns for source i and the query            *)
search_sources(order, pass, sc, limit, min_score) ==
    LET sources == get_sources(order, pass, limit * search_fetch_factor)
        results == SelectSeq(sources, LAMBDA i : sc[i] >= min_score)
    IN  Take(SortDesc(results, sc), limit)

\* limit=count * 2 and min_score=0.3 of _discover_additional_sources
discover_fetch_factor == 2
discover_min_score == 30

\* a discovery that returns the search results as they are
DiscoverAdditionalSources_noExclude(order, sc, user_sources, has_query, count) ==
    IF ~has_query THEN <<>>
    ELSE Take(search_sources(order, {order[i] : i \in DOMAIN order}, sc,
                             count * discover_fetch_factor,
                             discover_min_score), count)

(* _discover_additional_sources(user_sources, hint, strategy, count): an    *)
(* empty query gives no source; otherwise the search results that are not   *)
(* user sources, cut to count                                               *)
DiscoverAdditionalSources(order, sc, user_sources, has_query, count) ==
    IF ~has_query THEN <<>>
    ELSE LET results == search_sources(order, {order[i] : i \in DOMAIN order},
                                       sc, count * discover_fetch_factor,
                                       discover_min_score)
             user_source_ids == {user_sources[i] : i \in DOMAIN user_sources}
             discovered == SelectSeq(results,
                                     LAMBDA i : i \notin user_source_ids)
         IN  Take(discovered, count)

----------------------------------------------------------------------------
(* Source use of the five generate_* methods of BrainContentGenerator: one  *)
(* run over a store of sources, from create_session to the return or the    *)
(* re-raise.                                                                *)

MaxSources == 3
MaxSelected == 2
MaxCount == 2

SourceIds == 1..MaxSources

\* max_sources=5 and min_match_score=0.5 of generate_from_vision
max_sources == 5
min_match_score == 50

\* relevance scores of a stored source: one below every threshold, one above
SourceScores == {10, 60}

(* a BrainSource row, with the score the run's query gives it; use_count    *)
(* defaults to 0 and last_used_at to NULL                                   *)
Row(p, s) ==
    [present |-> p, score |-> s, use_count |-> 0, last_used_at |-> Unset]

\* a row that is not present stands for an id missing from the table
SourceRows == {Row(TRUE, s) : s \in SourceScores} \cup {Row(FALSE, 10)}

\* the ids of the table, ordered by updated_at descending
StoredIds(store) ==
    SelectSeq([i \in DOMAIN store |-> i], LAMBDA i : store[i].present)

ScoreOf(store) == [i \in DOMAIN store |-> store[i].score]

RECURSIVE SeqsUpTo(_, _)
SeqsUpTo(S, n) ==
    IF n = 0 THEN {<<>>}
    ELSE LET shorter == SeqsUpTo(S, n - 1)
         IN  shorter \cup {Append(s, x) : s \in shorter, x \in S}

SelectedLists == SeqsUpTo(SourceIds, MaxSelected)

\* a nullable JSON column holding a list of ids
NullCol == [null |-> TRUE, ids |-> <<>>]
Col(ids) == [null |-> FALSE, ids |-> ids]

(* create_session(mode, selected_source_ids=...): json.dumps(ids) if ids    *)
(* else None                                                                *)
CreateSession(mode, selected) ==
    [mode |-> mode, status |-> "pending",
     selected_source_ids |-> IF selected # <<>> THEN Col(selected) ELSE NullCol,
     matched_source_ids |-> NullCol,
     ai_discovered_source_ids |-> NullCol,
     generated_content |-> "-",
     error_message |-> "",
     completed_at |-> Unset]

(* increment_use_count(source_id): a missing id is skipped *)
IncrementUseCount(store, id, t) ==
    IF id \in DOMAIN store /\ store[id].present
    THEN [store EXCEPT ![id].use_count = @ + 1, ![id].last_used_at = t]
    ELSE store

(* for source_id in ids: increment_use_count(source_id), the writes stamped *)
(* t + 1, t + 2, ...                                                        *)
RECURSIVE IncrementAll(_, _, _)
IncrementAll(store, ids, t) ==
    IF ids = <<>> THEN store
    ELSE IncrementAll(IncrementUseCount(store, Head(ids), t + 1), Tail(ids),
                      t + 1)

\* a lookup that gives up as soon as one id is missing
Resolve_strict(store, ids) ==
    IF \A k \in DOMAIN ids : ids[k] \in DOMAIN store /\ store[ids[k]].present
    THEN ids ELSE <<>>

\* the get_source lookups of a list of ids: the rows found, in order
Resolve(store, ids) ==
    SelectSeq(ids, LAMBDA i : i \in DOMAIN store /\ store[i].present)

(* the sources a mode gathers before the synthesis call *)
Gathered(mode, store, selected, filter, count) ==
    IF mode = "vision"
    THEN search_sources(StoredIds(store), DOMAIN store, ScoreOf(store),
                        max_sources, min_match_score)
    ELSE IF mode = "full_ai_auto"
    THEN get_sources(StoredIds(store), filter, count * 2)
    ELSE Resolve(store, selected)

(* the ids the mode increments after the synthesis call *)
Incremented(mode, selected, sources, ai) ==
    IF mode = "vision" THEN <<>>
    ELSE IF mode \in {"full_ai_single", "full_ai_multiple"} THEN selected
    ELSE sources \o ai

(* the matched_source_ids / ai_discovered_source_ids arguments of the       *)
(* completed update; single and multiple mode pass neither                  *)
MatchedArg(mode, sources) ==
    IF mode \in {"full_ai_single", "full_ai_multiple"} THEN NullCol
    ELSE Col(sources)

DiscoveredArg(mode, ai) ==
    IF mode = "hybrid" THEN Col(ai) ELSE NullCol


UseInit ==
    /\ RestUseIdle
    /\ ustore \in [SourceIds -> SourceRows]
    /\ umode = ""
    /\ uselected = <<>>
    /\ ucount = 0
    /\ ufilter = {}
    /\ uhint = FALSE
    /\ upc = "idle"
    /\ usources = <<>>
    /\ uai = <<>>
    /\ ucontext = <<>>
    /\ ucontent = "-"
    /\ uexc = "-"
    /\ uout = "-"
    /\ ubackend = 0
    /\ usession = <<>>
    /\ uclock = 0

(* a generate_* method is called with its arguments: create_session *)
UseStart ==
    /\ upc = "idle"
    /\ umode = ""
    /\ \E mode \in Modes :
         /\ umode' = mode
         /\ uselected' \in
               IF mode = "full_ai_single" THEN {<<i>> : i \in SourceIds}
               ELSE IF mode \in {"full_ai_multiple", "hybrid"}
               THEN SelectedLists
               ELSE {<<>>}
         /\ ucount' \in IF mode = "full_ai_auto" THEN 1..MaxCount
                        ELSE IF mode = "hybrid" THEN 0..MaxCount
                        ELSE {0}
         /\ ufilter' \in IF mode = "full_ai_auto" THEN SUBSET SourceIds
                         ELSE {{}}
         /\ uhint' \in IF mode = "hybrid" THEN BOOLEAN ELSE {FALSE}
         /\ usession' = CreateSession(mode, uselected')
    /\ upc' = "gather"
    /\ UNCHANGED <<ustore, usources, uai, ucontext, ucontent, uexc, uout,
                   ubackend, uclock, rest_uvars>>

(* the try block up to the synthesis call *)
UseGather ==
    /\ upc = "gather"
    /\ LET got == Gathered(umode, ustore, uselected, ufilter, ucount)
           err == GatherError(umode, got # <<>>)
           sources == IF umode = "full_ai_auto" THEN Take(got, ucount)
                      ELSE got
           ai == IF umode = "hybrid" /\ ucount > 0
                 THEN DiscoverAdditionalSources(StoredIds(ustore),
                                                ScoreOf(ustore), sources,
                                                uhint, ucount)
                 ELSE <<>>
       IN  IF err # "-"
           THEN /\ uexc' = err
                /\ upc' = "except"
                /\ UNCHANGED <<usources, uai, ucontext>>
           ELSE /\ usources' = sources
                /\ uai' = ai
                /\ ucontext' = sources \o ai
                /\ upc' = "synthesize"
                /\ UNCHANGED uexc
    /\ UNCHANGED <<ustore, umode, uselected, ucount, ufilter, uhint, ucontent,
                   uout, ubackend, usession, uclock, rest_uvars>>

(* _generate_content_pieces / _generate_multiple_content_pieces *)
UseSynthesize ==
    /\ upc = "synthesize"
    /\ ubackend' = ubackend + 1
    /\ \E r \in BrainResponses : ucontent' = ContentPieces(r)
    /\ upc' = "increment"
    /\ UNCHANGED <<ustore, umode, uselected, ucount, ufilter, uhint, usources,
                   uai, ucontext, uexc, uout, usession, uclock, rest_uvars>>

(* the increment_use_count calls after the synthesis call *)
UseIncrement ==
    /\ upc = "increment"
    /\ LET ids == Incremented(umode, uselected, usources, uai)
       IN  /\ ustore' = IncrementAll(ustore, ids, uclock)
           /\ uclock' = uclock + Len(ids)
    /\ upc' = "complete"
    /\ UNCHANGED <<umode, uselected, ucount, ufilter, uhint, usources, uai,
                   ucontext, ucontent, uexc, uout, ubackend, usession,
                   rest_uvars>>

(* update_session_status(session_id, status="completed", ...) *)
UseComplete ==
    /\ upc = "complete"
    /\ IF StoreError(ucontent) # "-"
       THEN /\ uexc' = StoreError(ucontent)
            /\ upc' = "except"
            /\ UNCHANGED <<usession, uclock>>
       ELSE /\ uclock' = uclock + 1
            /\ usession' =
                  [usession EXCEPT
                     !.status = "completed",
                     !.matched_source_ids =
                        IF MatchedArg(umode, usources).null THEN @
                        ELSE MatchedArg(umode, usources),
                     !.ai_discovered_source_ids =
                        IF DiscoveredArg(umode, uai).null THEN @
                        ELSE DiscoveredArg(umode, uai),
                     !.generated_content =
                        IF ucontent = "null" THEN @ ELSE ucontent,
                     !.completed_at = uclock + 1]
            /\ upc' = "result"
            /\ UNCHANGED uexc
    /\ UNCHANGED <<ustore, umode, uselected, ucount, ufilter, uhint, usources,
                   uai, ucontext, ucontent, uout, ubackend, rest_uvars>>

(* return {...}, still inside the try block *)
UseResult ==
    /\ upc = "result"
    /\ IF ResultError(umode, ucontent) # "-"
       THEN /\ uexc' = ResultError(umode, ucontent)
            /\ upc' = "except"
            /\ UNCHANGED uout
       ELSE /\ uout' = "returned"
            /\ upc' = "done"
            /\ UNCHANGED uexc
    /\ UNCHANGED <<ustore, umode, uselected, ucount, ufilter, uhint, usources,
                   uai, ucontext, ucontent, ubackend, usession, uclock,
                   rest_uvars>>

(* except Exception as e: update_session_status(failed, str(e)); raise *)
UseExcept ==
    /\ upc = "except"
    /\ uclock' = uclock + 1
    /\ usession' = [usession EXCEPT !.status = "failed",
                                    !.error_message = ErrorOf(uexc),
                                    !.completed_at = uclock + 1]
    /\ uout' = "raised"
    /\ upc' = "done"
    /\ UNCHANGED <<ustore, umode, uselected, ucount, ufilter, uhint, usources,
                   uai, ucontext, ucontent, uexc, ubackend, rest_uvars>>

UseNext ==
    \/ UseStart \/ UseGather \/ UseSynthesize \/ UseIncrement \/ UseComplete
    \/ UseResult \/ UseExcept

SpecUse == UseInit /\ [][UseNext]_vars


\* the sources a finished run used, and the ids its session row names
UsedIds == {ucontext[i] : i \in DOMAIN ucontext}

PersistedIds ==
    {usession.selected_source_ids.ids[i] :
        i \in DOMAIN usession.selected_source_ids.ids}
    \cup {usession.matched_source_ids.ids[i] :
             i \in DOMAIN usession.matched_source_ids.ids}
    \cup {usession.ai_discovered_source_ids.ids[i] :
             i \in DOMAIN usession.ai_discovered_source_ids.ids}

\* C21: in each of the five modes a run that finds at least one source
\* reaches the synthesis call, and when synthesis returns artifacts the run
\* ends with the session completed, the ids of the sources used and the
\* artifacts persisted on the session (the discovered ids too in hybrid
\* mode), useCount of every source used increased by exactly 1 with
\* lastUsedAt set, and every other source unchanged.
C21_SuccessPersistsAndCounts ==
    (upc = "done"
     /\ Gathered(umode, ustore, uselected, ufilter, ucount) # <<>>) =>
        /\ ubackend = 1
        /\ ucontent = "list" =>
              /\ uout = "returned"
              /\ usession.status = "completed"
              /\ usession.generated_content = "list"
              /\ UsedIds \subseteq PersistedIds
              /\ umode = "hybrid" =>
                    usession.ai_discovered_source_ids = Col(uai)
              /\ \A i \in SourceIds :
                    IF i \in UsedIds
                    THEN /\ ustore[i].use_count = 1
                         /\ ustore[i].last_used_at # Unset
                    ELSE /\ ustore[i].use_count = 0
                         /\ ustore[i].last_used_at = Unset

\* C22: a run whose backend call returns no result, or a response without
\* the pieces list, ends with the session failed with an error message and
\* the failure raised to the caller; no session is completed with an empty
\* artifact list.
C22_EmptySynthesisFails ==
    /\ (bpc = "idle" /\ bresp \in {"None", "no_key"}) =>
          /\ sessions[Current].status = "failed"
          /\ sessions[Current].error_message # ""
          /\ bout = "raised"
    /\ (bpc \in {"result", "idle"} /\ Current > 0
        /\ sessions[Current].status = "completed") =>
          bcontent # "empty_list"

\* the given ids that name a row of the store, in the given order
ResolvedOfRun ==
    SelectSeq(uselected, LAMBDA i : ustore[i].present)

\* C23: in multiple mode, when at least one given id resolves the context
\* is built from exactly the resolved sources in the given order, the
\* backend is called and the run does not fail for missing sources; when
\* none resolves the session ends failed with no backend call.  In single
\* mode a missing id ends the session failed with no backend call.
C23_MissingSources ==
    (upc = "done" /\ umode \in {"full_ai_multiple", "full_ai_single"}) =>
        IF ResolvedOfRun # <<>>
        THEN /\ ucontext = ResolvedOfRun
             /\ ubackend = 1
             /\ uexc \notin {"No valid sources found", "Source not found"}
        ELSE /\ ucontext = <<>>
             /\ ubackend = 0
             /\ uout = "raised"
             /\ usession.status = "failed"
             /\ usession.error_message =
                   IF umode = "full_ai_single" THEN "Source not found"
                   ELSE "No valid sources found"

\* C23 witness: multiple mode was given a missing id followed by a stored
\* one, and completed with the stored source alone.
C23_Witness ==
    /\ upc = "done"
    /\ umode = "full_ai_multiple"
    /\ Len(uselected) = 2
    /\ ~ustore[uselected[1]].present
    /\ ustore[uselected[2]].present
    /\ ucontext = <<uselected[2]>>
    /\ usession.status = "completed"

----------------------------------------------------------------------------
(* search_sources and _discover_additional_sources applied to a store whose *)
(* sources are numbered most recently updated first.                        *)

MaxStore == 6
MaxLimit == 2
MaxAugment == 3

StoreIds == 1..MaxStore

\* the stored ids in the order get_sources reads them
StoreOrder == [i \in StoreIds |-> i]

\* scores below min_score, at the default min_score of 0.3, and above
Scores == {10, 30, 60}

\* min_score=0.3 of search_sources, min_score=0.5 of get_relevant_sources
MinScores == {30, 50}

\* lists of at most two distinct stored sources
UserSourceLists ==
    {s \in SeqsUpTo(StoreIds, 2) : \A i, j \in DOMAIN s : i # j => s[i] # s[j]}

SearchInit ==
    /\ RestSearchIdle
    /\ qscore \in [StoreIds -> Scores]
    /\ qop = "-"
    /\ qpass = {}
    /\ qlimit = 0
    /\ qmin = 0
    /\ quser = <<>>
    /\ qhint = FALSE
    /\ qcount = 0
    /\ qresult = <<>>
    /\ qpc = "start"

(* search_sources(query, source_types, tags, topics, limit, min_score) *)
Search ==
    /\ qpc = "start"
    /\ \E pass \in SUBSET StoreIds, limit \in 1..MaxLimit, m \in MinScores :
         /\ qpass' = pass
         /\ qlimit' = limit
         /\ qmin' = m
         /\ qresult' = search_sources(StoreOrder, pass, qscore, limit, m)
    /\ qop' = "search"
    /\ qpc' = "done"
    /\ UNCHANGED <<qscore, quser, qhint, qcount, rest_qvars>>

(* _discover_additional_sources(user_sources, hint, strategy, count), as    *)
(* generate_hybrid calls it: count > 0                                      *)
Discover ==
    /\ qpc = "start"
    /\ \E user \in UserSourceLists, hint \in BOOLEAN, count \in 1..MaxAugment :
         /\ quser' = user
         /\ qhint' = hint
         /\ qcount' = count
         /\ qresult' = DiscoverAdditionalSources(StoreOrder, qscore, user,
                                                 hint, count)
    /\ qop' = "discover"
    /\ qpc' = "done"
    /\ UNCHANGED <<qscore, qpass, qlimit, qmin, rest_qvars>>

SearchNext == Search \/ Discover

SpecSearch == SearchInit /\ [][SearchNext]_vars


\* the ids of a list
IdsOf(s) == {s[i] : i \in DOMAIN s}

\* what the discovery search of the finished discovery returned
DiscoverySearch ==
    search_sources(StoreOrder, StoreIds, qscore,
                   qcount * discover_fetch_factor, discover_min_score)

\* C24: the discovered sources never include a user-selected source and are
\* never more than the augment count; with 2 selected sources, an augment
\* count of 3 and a discovery search returning 5 candidates of which 1 is
\* selected, the discovered set excludes that id and has exactly 3 elements.
C24_DiscoveredExcludesSelected ==
    (qpc = "done" /\ qop = "discover") =>
        /\ IdsOf(qresult) \cap IdsOf(quser) = {}
        /\ Len(qresult) <= qcount
        /\ Cardinality(IdsOf(qresult)) = Len(qresult)
        /\ (/\ Len(quser) = 2
            /\ qcount = 3
            /\ qhint
            /\ Len(DiscoverySearch) = 5
            /\ Cardinality(IdsOf(DiscoverySearch) \cap IdsOf(quser)) = 1) =>
              Len(qresult) = 3

\* C24 witness: two selected sources, augment count 3, five search results
\* of which one is selected, three sources discovered.
C24_Witness ==
    /\ qpc = "done"
    /\ qop = "discover"
    /\ Len(quser) = 2
    /\ qcount = 3
    /\ qhint
    /\ Len(DiscoverySearch) = 5
    /\ Cardinality(IdsOf(DiscoverySearch) \cap IdsOf(quser)) = 1
    /\ Len(qresult) = 3

\* the stored sources that pass the filters and score at least min_score
Qualifying == {i \in qpass : qscore[i] >= qmin}

\* C25: search_sources returns the limit highest-scoring sources among those
\* that pass the filters and score at least minScore: nothing below
\* minScore, non-increasing scores, equal scores most recently updated
\* first, at most limit entries, as many as qualify up to limit, and no
\* omitted qualifying source scoring strictly higher than a returned one.
C25_SearchReturnsBest ==
    (qpc = "done" /\ qop = "search") =>
        /\ IdsOf(qresult) \subseteq Qualifying
        /\ Cardinality(IdsOf(qresult)) = Len(qresult)
        /\ \A i, j \in DOMAIN qresult :
              i < j => \/ qscore[qresult[i]] > qscore[qresult[j]]
                       \/ /\ qscore[qresult[i]] = qscore[qresult[j]]
                          /\ qresult[i] < qresult[j]
        /\ Len(qresult) <= qlimit
        /\ Len(qresult) = IF Cardinality(Qualifying) < qlimit
                          THEN Cardinality(Qualifying) ELSE qlimit
        /\ \A o \in Qualifying \ IdsOf(qresult) :
              \A i \in DOMAIN qresult : qscore[o] <= qscore[qresult[i]]

----------------------------------------------------------------------------
(* BrainService._calculate_relevance_score.  Strings are sequences of       *)
(* characters; a score is counted in units of 1/600, in which every weight  *)
(* and every weighted word overlap the bounds allow is a whole number (the  *)
(* sums of the code are taken exactly).                                     *)

MaxText == 4

\* 0.4, 0.3 * overlap, 0.3, 0.2 * overlap, 0.1, 0.1 and the cap 1.0
title_match == 240
title_overlap == 180
content_match == 180
content_overlap == 120
topic_match == 60
tag_match == 60
score_cap == 600

\* characters of stored text, and of a lowercased query
TextChars == {"A", " "}
QueryChars == {"a", " "}

\* str.lower()
LowerChar(c) == IF c = "A" THEN "a" ELSE c
Lower(s) == [i \in DOMAIN s |-> LowerChar(s[i])]

\* sub in s
Contains(sub, s) ==
    \E i \in 0..(Len(s) - Len(sub)) : SubSeq(s, i + 1, i + Len(sub)) = sub

\* set(s.split()): the maximal runs of characters that are not whitespace
Words(s) ==
    LET IsWord(i, j) ==
            /\ i <= j
            /\ \A k \in i..j : s[k] # " "
            /\ (i = 1 \/ s[i - 1] = " ")
            /\ (j = Len(s) \/ s[j + 1] = " ")
    IN  {SubSeq(s, p[1], p[2]) :
            p \in {q \in (1..Len(s)) \X (1..Len(s)) : IsWord(q[1], q[2])}}

\* len(query_words & words) / max(len(query_words), 1), times weight
Overlap(weight, query_words, words) ==
    (weight * Cardinality(query_words \cap words))
        \div (IF Cardinality(query_words) > 1 THEN Cardinality(query_words)
              ELSE 1)

\* a title score that gives nothing for the literal query
TitleScore_noLiteral(query_lower, title) ==
    IF Contains(query_lower, Lower(title)) THEN 0
    ELSE Overlap(title_overlap, Words(query_lower), Words(Lower(title)))

(* title match: the literal query, else the share of query words *)
TitleScore(query_lower, title) ==
    IF Contains(query_lower, Lower(title)) THEN title_match
    ELSE Overlap(title_overlap, Words(query_lower), Words(Lower(title)))

(* content match *)
ContentScore(query_lower, content) ==
    IF Contains(query_lower, Lower(content)) THEN content_match
    ELSE Overlap(content_overlap, Words(query_lower), Words(Lower(content)))

(* topic match and tag match: some query word occurs in some entry; a      *)
(* column that is NULL or holds an empty list gives nothing                 *)
ListScore(weight, query_lower, entries) ==
    IF \E e \in DOMAIN entries :
          \E w \in Words(query_lower) : Contains(w, Lower(entries[e]))
    THEN weight ELSE 0

calculate_relevance_score(title, content, topics, tags, query_lower) ==
    LET score == TitleScore(query_lower, title)
                 + ContentScore(query_lower, content)
                 + ListScore(topic_match, query_lower, topics)
                 + ListScore(tag_match, query_lower, tags)
    IN  IF score < score_cap THEN score ELSE score_cap


Titles == SeqsUpTo(TextChars, MaxText)
Queries == SeqsUpTo(QueryChars, MaxText)

\* contents, topic lists and tag lists of a source
Contents == {<<>>, <<"A", "A", " ", "A">>}
TopicLists == {<<>>, << <<"A", "A">> >>}
TagLists == {<<>>, << <<"A">> >>}

ScoreInit ==
    /\ RestScoreIdle
    /\ kquery \in Queries
    /\ ktitle \in Titles
    /\ kcontent \in Contents
    /\ ktopics \in TopicLists
    /\ ktags \in TagLists
    /\ kscore = -1
    /\ kprev = -1

(* score = self._calculate_relevance_score(source, query_lower, query_words) *)
Score ==
    /\ kscore = -1
    /\ kscore' = calculate_relevance_score(ktitle, kcontent, ktopics, ktags,
                                           kquery)
    /\ UNCHANGED <<kquery, ktitle, kcontent, ktopics, ktags, kprev,
                   rest_kvars>>

(* update_source(source_id, title=...) and the same query scored again: a   *)
(* source equal to the first in every field but the title                   *)
Retitle ==
    /\ kscore # -1
    /\ kprev = -1
    /\ \E t \in Titles :
         /\ ktitle' = t
         /\ kscore' = calculate_relevance_score(t, kcontent, ktopics, ktags,
                                                kquery)
    /\ kprev' = kscore
    /\ UNCHANGED <<kquery, kcontent, ktopics, ktags, rest_kvars>>

ScoreNext == Score \/ Retitle

SpecScore == ScoreInit /\ [][ScoreNext]_vars

\* C26: of two sources equal in every field but the title, one whose title
\* contains the full lowercased query scores at least as high as the other
\* when the other's title does not contain it (in particular when it shares
\* only half of the query's words); every score lies in [0, 1].
C26_LiteralTitleScoresHigher ==
    [][/\ kscore' # -1 => (0 <= kscore' /\ kscore' <= score_cap)
       /\ (/\ kscore # -1
           /\ Contains(kquery, Lower(ktitle'))
           /\ ~Contains(kquery, Lower(ktitle))) => kscore' >= kscore
       /\ (/\ kscore # -1
           /\ ~Contains(kquery, Lower(ktitle'))
           /\ Contains(kquery, Lower(ktitle))) => kscore' <= kscore]_vars

\* C26 witness: for the query "a aa" a source whose title "A" shares half of
\* the query's words scored 0.15, and with the title "A AA" it scores 0.4.
C26_Witness ==
    /\ kquery = <<"a", " ", "a", "a">>
    /\ kcontent = <<>>
    /\ ktopics = <<>>
    /\ ktags = <<>>
    /\ kprev = 90
    /\ ktitle = <<"A", " ", "A", "A">>
    /\ kscore = title_match

----------------------------------------------------------------------------
(* Field limits: DEFAULT_FIELD_LIMITS, CURRENT_FIELD_LIMITS,                *)
(* update_field_limits and get_field_limit of core/content/models.py.  A    *)
(* dict is a function on its keys.                                          *)

MaxUpdates == 2

\* two of the default keys, and a key DEFAULT_FIELD_LIMITS does not have
DefaultKeys == {"carousel_max_slides", "tweet_text_max"}
LimitKeys == DefaultKeys \cup {"custom_max"}

DEFAULT_FIELD_LIMITS ==
    [k \in DefaultKeys |->
        IF k = "carousel_max_slides" THEN carousel_max_slides
        ELSE tweet_text_max]

\* DEFAULT_FIELD_LIMITS.get(key, 1000)
fallback_limit == 1000

\* values a caller supplies
NewValues == {12, 500}

\* the dicts a caller passes to update_field_limits
NewLimits == UNION {[S -> NewValues] : S \in SUBSET LimitKeys}

\* an update that replaces the dict
DictUpdate_replace(d, new) == new

(* d.update(new) *)
DictUpdate(d, new) ==
    [k \in DOMAIN d \cup DOMAIN new |->
        IF k \in DOMAIN new THEN new[k] ELSE d[k]]

(* CURRENT_FIELD_LIMITS.get(key, DEFAULT_FIELD_LIMITS.get(key, 1000)) *)
get_field_limit(current, default, key) ==
    IF key \in DOMAIN current THEN current[key]
    ELSE IF key \in DOMAIN default THEN default[key]
    ELSE fallback_limit

(* CURRENT_FIELD_LIMITS = DEFAULT_FIELD_LIMITS.copy() *)
LimitsInit ==
    /\ RestLimitsIdle
    /\ ldefault = DEFAULT_FIELD_LIMITS
    /\ lcurrent = DEFAULT_FIELD_LIMITS
    /\ lupdates = <<>>
    /\ lkey = ""
    /\ lgot = 0
    /\ lprompt = <<>>

(* update_field_limits(new_limits) *)
UpdateFieldLimits ==
    /\ Len(lupdates) < MaxUpdates
    /\ \E new \in NewLimits :
         /\ lcurrent' = DictUpdate(lcurrent, new)
         /\ lupdates' = Append(lupdates, new)
    /\ UNCHANGED <<ldefault, lkey, lgot, lprompt, rest_lvars>>

(* get_field_limit(key) *)
GetFieldLimit ==
    /\ \E key \in LimitKeys :
         /\ lkey' = key
         /\ lgot' = get_field_limit(lcurrent, ldefault, key)
    /\ UNCHANGED <<ldefault, lcurrent, lupdates, lprompt, rest_lvars>>

(* get_system_prompt_generate_content: limits = CURRENT_FIELD_LIMITS, the   *)
(* only use generation and editing make of the limits                       *)
PromptGenerateContent ==
    /\ lprompt' = lcurrent
    /\ UNCHANGED <<ldefault, lcurrent, lupdates, lkey, lgot, rest_lvars>>

LimitsNext == UpdateFieldLimits \/ GetFieldLimit \/ PromptGenerateContent

SpecLimits == LimitsInit /\ [][LimitsNext]_vars

\* the calls that supplied key k, and the value get_field_limit(k) is to give
SuppliedAt(updates, k) == {i \in DOMAIN updates : k \in DOMAIN updates[i]}

ExpectedLimit(updates, k) ==
    LET at == SuppliedAt(updates, k)
    IN  IF at # {}
        THEN updates[CHOOSE i \in at : \A j \in at : j <= i][k]
        ELSE DEFAULT_FIELD_LIMITS[k]

\* the keys the claim speaks of: overridden, or with a default
KnownKeys(updates) ==
    {k \in LimitKeys : SuppliedAt(updates, k) # {} \/ k \in DefaultKeys}

\* C27: after any sequence of update_field_limits calls get_field_limit(k)
\* returns the value most recently supplied for k, or the default of k when
\* k was never overridden; an update changes only the keys it supplies;
\* DEFAULT_FIELD_LIMITS never changes; and a step that is no update (a get,
\* a prompt built for generation or editing) leaves the current limits alone.
C27_LimitsOnlyByOverride ==
    [][/\ ldefault' = DEFAULT_FIELD_LIMITS
       /\ \A k \in KnownKeys(lupdates') :
             get_field_limit(lcurrent', ldefault', k)
                = ExpectedLimit(lupdates', k)
       /\ ((lkey' # lkey \/ lgot' # lgot) /\ lkey' \in KnownKeys(lupdates')) =>
             lgot' = ExpectedLimit(lupdates', lkey')
       /\ lupdates' = lupdates => lcurrent' = lcurrent
       /\ lupdates' # lupdates =>
             \A k \in LimitKeys \ DOMAIN lupdates'[Len(lupdates')] :
                /\ k \in DOMAIN lcurrent' <=> k \in DOMAIN lcurrent
                /\ k \in DOMAIN lcurrent => lcurrent'[k] = lcurrent[k]]_vars

\* C27 witness: two updates supplied carousel_max_slides with different
\* values, only the first supplied tweet_text_max, and get_field_limit then
\* returned the second value of carousel_max_slides.
C27_Witness ==
    /\ Len(lupdates) = 2
    /\ DOMAIN lupdates[1] = {"carousel_max_slides", "tweet_text_max"}
    /\ DOMAIN lupdates[2] = {"carousel_max_slides"}
    /\ lupdates[1]["carousel_max_slides"] # lupdates[2]["carousel_max_slides"]
    /\ lkey = "carousel_max_slides"
    /\ lgot = lupdates[2]["carousel_max_slides"]
    /\ lcurrent["tweet_text_max"] = lupdates[1]["tweet_text_max"]
    /\ lprompt = lcurrent

----------------------------------------------------------------------------
(* wait_for_capacity polled by several threads for as long as they like.    *)
(* Time is counted from the present: the clock reads 0 at every step, a     *)
(* request made d seconds ago has time -d, and a request older than the     *)
(* window is kept at -(WindowSeconds + 1), which the next poll removes.     *)
(* Only a change of tm_yday matters to the limiter, so the day is one of    *)
(* two values that midnight exchanges.                                      *)

Oldest == 0 - (WindowSeconds + 1)

\* time.time() has advanced by d
Aged(q, d) ==
    [i \in DOMAIN q |-> IF q[i] - d < Oldest THEN Oldest ELSE q[i] - d]

WaitInit ==
    /\ RestWaitIdle
    /\ wgate = [request_times |-> <<>>, daily_count |-> 0,
                last_reset_day |-> 1]
    /\ wday = 1
    /\ wpc = [t \in Threads |-> "idle"]

(* a thread calls wait_for_capacity *)
WaitCall(t) ==
    /\ wpc[t] = "idle"
    /\ wpc' = [wpc EXCEPT ![t] = "poll"]
    /\ UNCHANGED <<wgate, wday, rest_wvars>>

(* one pass of the locked block: reset, pop, then reserve and return, or    *)
(* leave the lock for time.sleep(0.1)                                       *)
WaitPoll(t) ==
    /\ wpc[t] = "poll"
    /\ LET g1 == ResetDaily(wgate, wday)
           g == [g1 EXCEPT !.request_times = PopOld(@, 0 - WindowSeconds)]
       IN  IF HasCapacity(g)
           THEN /\ wgate' = Reserve(g, 0)
                /\ wpc' = [wpc EXCEPT ![t] = "idle"]
           ELSE /\ wgate' = g
                /\ wpc' = [wpc EXCEPT ![t] = "sleep"]
    /\ UNCHANGED <<wday, rest_wvars>>

(* time.sleep(0.1) returns *)
WaitWake(t) ==
    /\ wpc[t] = "sleep"
    /\ wpc' = [wpc EXCEPT ![t] = "poll"]
    /\ UNCHANGED <<wgate, wday, rest_wvars>>

(* time passes *)
WaitTick ==
    /\ \E d \in TickSteps :
         wgate' = [wgate EXCEPT !.request_times = Aged(@, d)]
    /\ UNCHANGED <<wday, wpc, rest_wvars>>

(* midnight: tm_yday changes *)
WaitMidnight ==
    /\ wday' = IF wday = 1 THEN 2 ELSE 1
    /\ UNCHANGED <<wgate, wpc, rest_wvars>>

WaitNext ==
    \/ \E t \in Threads : WaitCall(t)
    \/ \E t \in Threads : WaitPoll(t)
    \/ \E t \in Threads : WaitWake(t)
    \/ WaitTick
    \/ WaitMidnight

SpecWait == WaitInit /\ [][WaitNext]_vars

(* fair scheduling: time advances, and a thread inside wait_for_capacity    *)
(* keeps running its loop                                                   *)
SpecWaitFair ==
    /\ SpecWait
    /\ WF_vars(WaitTick)
    /\ \A t \in Threads : WF_vars(WaitPoll(t)) /\ WF_vars(WaitWake(t))

\* the daily quota is not exhausted: a poll would find daily_count below
\* the limit, as it is or after the reset of a new day
QuotaOpen ==
    wgate.daily_count < qpd_limit \/ wday # wgate.last_reset_day

\* C28: with time advancing, the polling threads scheduled fairly and the
\* daily quota never exhausted, every thread blocked in wait_for_capacity
\* eventually acquires capacity and returns.
C28_BlockedEventuallyAcquires ==
    ([]QuotaOpen) =>
        \A t \in Threads : (wpc[t] # "idle") ~> (wpc[t] = "idle")


\* C29: every artifact generate_specific_content_pieces returns for an idea
\* has the type the idea declared: a response, initial or repaired, whose
\* type tag is another known type is never accepted as the idea's artifact.
C29_ArtifactHasDeclaredType ==
    \A k \in DOMAIN generated_pieces :
        k \in DOMAIN piece_idea =>
            generated_pieces[k].content_type = ideas[piece_idea[k]]


\* C30: identify_content_changes returns ["No changes detected"] only when
\* edited equals original: whenever the two artifacts differ in any way (a
\* top-level field removed in edited, a slide sub-field added or removed
\* with the slide count unchanged) the list has a specific entry.
C30_NoChangesOnlyWhenEqual ==
    (cpc = "done" /\ changes = <<NoChanges>>) => cedit = corig

============================================================================
